---- MODULE Spec2Model ----
(***************************************************************************)
(* Model of the RAG core of the Assistant Juridique Marocain backend:      *)
(*   RAGService        backend/app/services/rag_service.py                 *)
(*   DataService       backend/app/services/data_service.py                *)
(*   EmbeddingService  backend/app/services/embedding_service.py           *)
(*   LLMService        backend/app/services/llm_service.py                 *)
(*                                                                         *)
(* Conventions.                                                            *)
(*  - A coroutine runs atomically from one real suspension point (an HTTP  *)
(*    request, asyncio.sleep) to the next: this is asyncio's cooperative   *)
(*    scheduling.  The chromadb calls of DataService are synchronous, so   *)
(*    `await search_documents(...)` never yields to another task.          *)
(*  - Optional[T] is <<>> for None and <<v>> for a value v.                *)
(*  - A float that the code only compares, divides or averages is an exact *)
(*    fraction <<numerator, denominator>> with denominator > 0.            *)
(*  - A string whose only observed property is its length is that length;  *)
(*    a joined string is the sequence of its parts.                        *)
(*  - confidence is round(x, 1): it is kept in tenths (50.0 is 500).       *)
(***************************************************************************)
EXTENDS Integers, Sequences, FiniteSets, TLC

(***************************************************************************)
(* Bounds of the model.                                                    *)
(***************************************************************************)
NumCalls == 2
MaxAsks == 2
MaxResults == 3
MaxTexts == 4
MaxQueries == 3

(***************************************************************************)
(* Program constants.                                                      *)
(***************************************************************************)
MAX_SOURCES == 3
SIMILARITY_THRESHOLD == <<2, 1000>>
OLLAMA_MAX_RETRIES == 3
FAST_MAX_SOURCES == 2
CONTEXT_BUDGET == 1500
CONTEXT_BUDGET_FAST == 800
CONTENT_MAX == 300
CONTENT_MAX_FAST == 200
ELLIPSIS_LEN == 3
TOP_K == 3
DEFAULT_CONFIDENCE == 500
DEFAULT_NAME_LEN == 7
DEFAULT_ARTICLE_LEN == 3
EMBEDDING_MODEL == "nomic-embed-text:latest"
OLLAMA_RETRY_DELAY == 1
MAX_EMBED_TOKENS == 512
CHARS_PER_TOKEN == 3
EMBEDDING_MAX_CONCURRENT == 5
MAX_ERROR_EXAMPLES == 3
BATCH_SIZE == 50
MAX_REPORTED_ERRORS == 10

None == <<>>
Some(v) == <<v>>
IsNone(o) == o = <<>>
Val(o) == o[1]

Min(a, b) == IF a <= b THEN a ELSE b

(***************************************************************************)
(* Fractions.                                                              *)
(***************************************************************************)
Frac(n, d) == <<n, d>>
FGeq(a, b) == a[1] * b[2] >= b[1] * a[2]
FLeq(a, b) == FGeq(b, a)
FAdd(a, b) == <<a[1] * b[2] + b[1] * a[2], a[2] * b[2]>>
FZero(a) == a[1] = 0

(* Python's `x or default`: None, 0 and 0.0 are falsy.                     *)
OrInt(o, default) == IF IsNone(o) \/ Val(o) = 0 THEN default ELSE Val(o)
OrFloat(o, default) == IF IsNone(o) \/ FZero(Val(o)) THEN default ELSE Val(o)

(***************************************************************************)
(* DataService.search_documents and the store it queries.                  *)
(*                                                                         *)
(* A stored document is [id, vec, name, article, content]: its id, its     *)
(* embedding (one coordinate is enough to order neighbours) and the        *)
(* lengths of its document_name, article and content.  The collection is   *)
(* created without a distance function, so chromadb uses squared L2.       *)
(***************************************************************************)
Distance(vec, doc) == (vec - doc.vec) * (vec - doc.vec)

(* The index among idxs of the nearest document; ties keep store order.    *)
NearestIdx(docs, vec, idxs) ==
    CHOOSE i \in idxs : \A j \in idxs :
        \/ Distance(vec, docs[i]) < Distance(vec, docs[j])
        \/ Distance(vec, docs[i]) = Distance(vec, docs[j]) /\ i <= j

RECURSIVE NearestFrom(_, _, _, _)
NearestFrom(docs, vec, idxs, n) ==
    IF n = 0 \/ idxs = {} THEN <<>>
    ELSE LET i == NearestIdx(docs, vec, idxs)
         IN  <<[doc |-> docs[i], distance |-> Distance(vec, docs[i])]>>
             \o NearestFrom(docs, vec, idxs \ {i}, n - 1)

(* collection.query(query_embeddings=[vec], n_results=n): the n nearest    *)
(* neighbours by non-decreasing distance.                                  *)
CollectionQuery(docs, vec, n) == NearestFrom(docs, vec, DOMAIN docs, n)

RelevanceScore(distance) == Frac(1, 1 + distance)

FormattedResult(hit, i) ==
    [id |-> hit.doc.id,
     content |-> hit.doc.content,
     document_name |-> Some(hit.doc.name),
     article |-> Some(hit.doc.article),
     relevance_score |-> Some(RelevanceScore(hit.distance)),
     distance |-> hit.distance,
     rank |-> i]

RECURSIVE FormatFrom(_, _, _)
FormatFrom(hits, i, threshold) ==
    IF i > Len(hits) THEN <<>>
    ELSE (IF FGeq(RelevanceScore(hits[i].distance), threshold)
          THEN <<FormattedResult(hits[i], i)>> ELSE <<>>)
         \o FormatFrom(hits, i + 1, threshold)

(* The threshold search_documents filters with.                            *)
SearchThreshold(similarity_threshold) ==
    OrFloat(similarity_threshold, SIMILARITY_THRESHOLD)

(* search_documents without the threshold filter.                          *)
search_documents_unfiltered(docs, query_vector, limit, similarity_threshold, query_ok) ==
    IF query_ok
    THEN FormatFrom(CollectionQuery(docs, query_vector, limit), 1, Frac(0, 1))
    ELSE <<>>

(* The body of search_documents once the collection handle exists:         *)
(* query_ok is whether collection.query returned; an exception is logged   *)
(* and an empty list is returned.                                          *)
search_documents(docs, query_vector, limit, similarity_threshold, query_ok) ==
    IF query_ok
    THEN FormatFrom(CollectionQuery(docs, query_vector, limit), 1,
                    SearchThreshold(similarity_threshold))
    ELSE <<>>

(***************************************************************************)
(* RAGService helpers.                                                     *)
(***************************************************************************)
ConfiguredMaxSources(fast) ==
    IF fast THEN Min(MAX_SOURCES, FAST_MAX_SOURCES) ELSE MAX_SOURCES

ContextBudget(fast) == IF fast THEN CONTEXT_BUDGET_FAST ELSE CONTEXT_BUDGET
ContentMax(fast) == IF fast THEN CONTENT_MAX_FAST ELSE CONTENT_MAX

Digits(i) == IF i < 10 THEN 1 ELSE IF i < 100 THEN 2 ELSE 3

TruncatedLen(content, fast) ==
    IF content > ContentMax(fast) THEN ContentMax(fast) + ELLIPSIS_LEN ELSE content

(* len(f"Source {i}: {name} - {article}\n{content}\n")                      *)
ContextEntryLen(result, i, fast) ==
    7 + Digits(i) + 2
    + (IF IsNone(result.document_name) THEN DEFAULT_NAME_LEN ELSE Val(result.document_name))
    + 3
    + (IF IsNone(result.article) THEN DEFAULT_ARTICLE_LEN ELSE Val(result.article))
    + 1 + TruncatedLen(result.content, fast) + 1

RECURSIVE ContextParts(_, _, _, _, _)
ContextParts(results, i, current_length, max_sources, fast) ==
    IF i > Min(max_sources, Len(results)) THEN <<>>
    ELSE LET entry == ContextEntryLen(results[i], i, fast)
         IN  IF current_length + entry > ContextBudget(fast) THEN <<>>
             ELSE <<[rank |-> i, id |-> results[i].id, length |-> entry]>>
                  \o ContextParts(results, i + 1, current_length + entry,
                                  max_sources, fast)

(* The context is "\n".join(context_parts): kept as its parts.              *)
_prepare_context(search_results, max_sources, fast) ==
    IF search_results = <<>> THEN <<>>
    ELSE ContextParts(search_results, 1, 0, max_sources, fast)

RECURSIVE SumLengths(_)
SumLengths(parts) ==
    IF parts = <<>> THEN 0 ELSE Head(parts).length + SumLengths(Tail(parts))

(* len("\n".join(parts))                                                    *)
ContextLen(parts) ==
    SumLengths(parts) + (IF Len(parts) > 0 THEN Len(parts) - 1 ELSE 0)

(* _prepare_sources over the results that fit the context only.            *)
_prepare_sources_fitting(search_results) ==
    [i \in 1..Min(FAST_MAX_SOURCES, Len(search_results)) |->
        [id |-> search_results[i].id,
         document_name |-> Val(search_results[i].document_name),
         article |-> Val(search_results[i].article),
         content |-> search_results[i].content,
         relevance_score |-> Val(search_results[i].relevance_score),
         rank |-> i]]

_prepare_sources(search_results) ==
    [i \in 1..Len(search_results) |->
        [id |-> search_results[i].id,
         document_name |-> IF IsNone(search_results[i].document_name) THEN 0
                           ELSE Val(search_results[i].document_name),
         article |-> IF IsNone(search_results[i].article) THEN 0
                     ELSE Val(search_results[i].article),
         content |-> search_results[i].content,
         relevance_score |-> IF IsNone(search_results[i].relevance_score)
                             THEN Frac(0, 1)
                             ELSE Val(search_results[i].relevance_score),
         rank |-> i]]

(* result.get("relevance_score", 0.0)                                       *)
Similarity(result) ==
    IF IsNone(result.relevance_score) THEN Frac(0, 1) ELSE Val(result.relevance_score)

RECURSIVE SumSimilarities(_)
SumSimilarities(results) ==
    IF results = <<>> THEN Frac(0, 1)
    ELSE FAdd(Similarity(Head(results)), SumSimilarities(Tail(results)))

(* sum(similarities) / len(similarities) over search_results[:3]            *)
AvgTop(results) ==
    LET top == SubSeq(results, 1, Min(TOP_K, Len(results)))
        s == SumSimilarities(top)
    IN  Frac(s[1], s[2] * Len(top))

(* round(n / d) with ties to even, n >= 0, d > 0                            *)
RoundHalfEven(n, d) ==
    LET q == n \div d
        r == n % d
    IN  IF 2 * r < d THEN q
        ELSE IF 2 * r > d THEN q + 1
        ELSE IF q % 2 = 0 THEN q ELSE q + 1

(* ScaledConfidence without the cap at 100.                                *)
ScaledConfidenceUncapped(avg) == RoundHalfEven(avg[1] * 1200, avg[2])

(* round(min(100.0, avg * 100 * 1.2), 1), in tenths                         *)
ScaledConfidence(avg) ==
    IF avg[1] * 1200 >= 1000 * avg[2] THEN 1000
    ELSE RoundHalfEven(avg[1] * 1200, avg[2])

_calculate_confidence(search_results) ==
    IF search_results = <<>> THEN 0
    ELSE LET similarities == SubSeq(search_results, 1, Min(TOP_K, Len(search_results)))
         IN  IF similarities # <<>> THEN ScaledConfidence(AvgTop(search_results))
             ELSE DEFAULT_CONFIDENCE

(***************************************************************************)
(* State.                                                                  *)
(***************************************************************************)
VARIABLES
    fast_mode,        \* RAGService.fast_mode
    use_gemini,       \* LLMService.use_gemini
    emb_verified,     \* EmbeddingService._model_verified
    llm_verified,     \* LLMService._ollama_model_verified
    client,           \* DataService.client: "none" or "open"
    collection,       \* DataService.collection: "none" or "open"
    stored,           \* the documents persisted in the chromadb collection
    metrics,          \* RAGService._performance_metrics
    asked,            \* number of process_question calls started so far
    pc,               \* per call: where the coroutine is suspended
    args,             \* per call: the arguments of process_question
    retry_count,      \* per call: retry_count of the gateway request in flight
    search_results,   \* per call: the local search_results
    context,          \* per call: the local context
    ret,              \* per call: what the call returned or raised
    trace,            \* per call: the stages entered and left, in order
    queries,          \* per call: the (n_results, threshold, handle) of each store query
    argResults,       \* a helper called on its own: the result lists it is given
    argQuery,         \* search_documents called on its own: its arguments
    retValue,         \* what the helper called on its own returned
    emb_client,       \* EmbeddingService._client: "none" or "open"
    emb_model,        \* EmbeddingService.model
    llm_client,       \* LLMService._ollama_client: "none" or "open"
    validation,       \* per call: what validate_with_gemini returned for its answer
    endpoint,         \* what the remote endpoint answers to a gateway request
    emb_req,          \* embed_text called on its own: the request in progress
    llm_req,          \* generate_with_ollama called on its own: the request in progress
    batch,            \* embed_batch called on its own: the call frame
    task,             \* embed_batch: the embed_with_semaphore task of each text
    indexing_progress, \* IndexingService.indexing_progress
    run,              \* index_all_documents: the call frame of each caller
    switch            \* switch_model called on its own: the call frame of each caller

vars == <<fast_mode, use_gemini, emb_verified, llm_verified, client, collection,
          stored, metrics, asked, pc, args, retry_count, search_results, context,
          ret, trace, queries, argResults, argQuery, retValue,
          emb_client, emb_model, llm_client, validation, endpoint, emb_req, llm_req,
          batch, task, indexing_progress, run, switch>>

shared == <<fast_mode, use_gemini, stored>>
harness == <<argResults, argQuery, retValue>>
gateways == <<emb_client, emb_model, llm_client>>
direct == <<endpoint, emb_req, llm_req, switch>>
batching == <<batch, task>>
indexing == <<indexing_progress, run>>
others == <<direct, batching, indexing>>

Calls == 1..NumCalls

(***************************************************************************)
(* Inputs.                                                                 *)
(***************************************************************************)
Questions == {"", " ", "q"}
IsBlank(text) == text \in {"", " "}

(* AskRequest: max_sources in 1..20, similarity_threshold in [0.0, 1.0]     *)
MaxSourcesArgs == {None, Some(1), Some(5)}
ThresholdArgs == {None, Some(Frac(0, 1)), Some(Frac(1, 2))}
ValidateArgs == {None, Some(TRUE)}

(* Embeddings the remote model can answer with.                            *)
Vectors == {0, 1}

Doc(id, vec, name, article, content) ==
    [id |-> id, vec |-> vec, name |-> name, article |-> article, content |-> content]

(* Collections the orchestrator is run against: empty; a small statute     *)
(* with one far-away document; long articles under long titles, of which   *)
(* three do not fit the context together.                                  *)
Corpora ==
    { <<>>,
      <<Doc(1, 0, 12, 9, 25), Doc(2, 1, 12, 10, 400), Doc(3, 30, 12, 10, 80)>>,
      <<Doc(1, 0, 200, 9, 400), Doc(2, 1, 200, 9, 400), Doc(3, 2, 200, 9, 400),
        Doc(4, 3, 12, 9, 25), Doc(5, 40, 12, 9, 25)>> }

EmbeddingOutcomes == {"ok", "http5xx", "http4xx", "conn_error", "timeout", "malformed"}
GenerationOutcomes ==
    {"ok", "http5xx", "http4xx", "conn_error", "timeout", "malformed", "empty"}
VerifyOutcomes == {"ok", "model_missing", "conn_error", "http_error"}
StoreOutcomes == {"ok", "client_error", "collection_error", "query_error"}

(* httpx.TimeoutException is a RequestError.                               *)
IsRequestError(outcome) == outcome \in {"conn_error", "timeout"}
IsServerError(outcome) == outcome = "http5xx"

NoArgs == [question |-> "", max_sources |-> None, similarity_threshold |-> None,
           validate_response |-> None]
NoRet == [kind |-> "none"]

(* No gateway request, batch or indexing run in progress.                  *)
NoEndpoint == [tags |-> None, posts |-> <<>>]
NoFrame == [pc |-> "idle"]

(* The callers of index_all_documents on the one IndexingService.          *)
Runs == {"A", "B"}

(* IndexingService.__init__: the run record before any run.                *)
IdleProgress ==
    [status |-> "idle", total_files |-> 0, processed_files |-> 0,
     total_documents |-> 0, processed_documents |-> 0, indexed_documents |-> 0,
     failed_documents |-> 0, start_time |-> None, end_time |-> None, errors |-> <<>>]

(* EmbeddingService.__init__ and LLMService.__init__.                      *)
InitGateways ==
    /\ emb_verified = FALSE
    /\ llm_verified = FALSE
    /\ emb_client = "none"
    /\ emb_model = EMBEDDING_MODEL
    /\ llm_client = "none"

InitStore ==
    /\ client = "none"
    /\ collection = "none"

InitCalls ==
    /\ metrics = [total_queries |-> 0, avg_response_time |-> Frac(0, 1),
                  avg_embedding_time |-> Frac(0, 1), avg_search_time |-> Frac(0, 1),
                  avg_generation_time |-> Frac(0, 1), avg_validation_time |-> Frac(0, 1)]
    /\ asked = 0
    /\ pc = [c \in Calls |-> "idle"]
    /\ args = [c \in Calls |-> NoArgs]
    /\ retry_count = [c \in Calls |-> 0]
    /\ search_results = [c \in Calls |-> <<>>]
    /\ context = [c \in Calls |-> <<>>]
    /\ ret = [c \in Calls |-> NoRet]
    /\ trace = [c \in Calls |-> <<>>]
    /\ queries = [c \in Calls |-> <<>>]
    /\ validation = [c \in Calls |-> None]

InitOthers ==
    /\ endpoint = NoEndpoint
    /\ emb_req = NoFrame
    /\ llm_req = NoFrame
    /\ switch = [c \in Calls |-> NoFrame]
    /\ batch = NoFrame
    /\ task = <<>>
    /\ indexing_progress = IdleProgress
    /\ run = [r \in Runs |-> NoFrame]

InitServices ==
    /\ fast_mode \in BOOLEAN
    /\ use_gemini \in BOOLEAN
    /\ InitGateways
    /\ InitStore
    /\ InitCalls
    /\ InitOthers

InitHarness ==
    /\ argResults = <<>>
    /\ argQuery = <<>>
    /\ retValue = <<>>

Init ==
    /\ InitServices
    /\ InitHarness
    /\ stored \in Corpora

(***************************************************************************)
(* RAGService.process_question.                                            *)
(*                                                                         *)
(* trace[c] records the stages of call c: <<stage, "begin">> when the      *)
(* stage is entered, <<stage, "end">> when it has returned and             *)
(* <<stage, "raise">> when it raised.                                      *)
(***************************************************************************)
Ev(stage, what) == <<stage, what>>

RAGServiceError(stage) == [kind |-> "RAGServiceError", stage |-> stage]

(* limit=max_sources or self.max_sources                                    *)
RetrievalLimit(a, fast) == OrInt(a.max_sources, ConfiguredMaxSources(fast))

(* similarity_threshold=similarity_threshold or self.similarity_threshold   *)
RetrievalThreshold(a) == Some(OrFloat(a.similarity_threshold, SIMILARITY_THRESHOLD))

(* Steps 5 to 7 and the returned dict.                                      *)
QueryResult(results) ==
    LET sources == _prepare_sources(results)
    IN  [kind |-> "result",
         response |-> "answer",
         sources |-> sources,
         metadata |-> [sources_found |-> Len(sources),
                       confidence |-> _calculate_confidence(results),
                       validated |-> FALSE,
                       validation_score |-> None,
                       total_documents_searched |-> Len(results)]]

(* The performance dict of process_question: the time each stage took.     *)
Performance(total, embedding, search, generation) ==
    [total_time |-> total, embedding_time |-> embedding, search_time |-> search,
     generation_time |-> generation, validation_time |-> 0]

(* _update_performance_metrics that counts the first query only.           *)
_update_performance_metrics_once(m, performance) ==
    [m EXCEPT !.total_queries = 1]

(* RAGService._update_performance_metrics: total_queries += 1, then for    *)
(* each avg_x of the four the running average with                         *)
(* performance.get(x, 0.0), x being the metric's name without "avg_".      *)
_update_performance_metrics(m, performance) ==
    LET total_queries == m.total_queries + 1
        Get(key) == IF key \in DOMAIN performance THEN performance[key] ELSE 0
        Average(current_avg, new_value) ==
            Frac(current_avg[1] * (total_queries - 1) + new_value * current_avg[2],
                 current_avg[2] * total_queries)
    IN  [total_queries |-> total_queries,
         avg_response_time |-> Average(m.avg_response_time, Get("response_time")),
         avg_embedding_time |-> Average(m.avg_embedding_time, Get("embedding_time")),
         avg_search_time |-> Average(m.avg_search_time, Get("search_time")),
         avg_generation_time |-> Average(m.avg_generation_time, Get("generation_time")),
         avg_validation_time |-> m.avg_validation_time]

(* process_question up to its first suspension: embed_text and the head of *)
(* _make_embedding_request, which creates the HTTP client on the way to    *)
(* its first request.                                                      *)
Ask(c, q, ms, th, vr) ==
    /\ pc[c] \in {"idle", "returned", "raised"}
    /\ asked < MaxAsks
    /\ asked' = asked + 1
    /\ args' = [args EXCEPT ![c] = [question |-> q, max_sources |-> ms,
                                    similarity_threshold |-> th,
                                    validate_response |-> vr]]
    /\ search_results' = [search_results EXCEPT ![c] = <<>>]
    /\ context' = [context EXCEPT ![c] = <<>>]
    /\ queries' = [queries EXCEPT ![c] = <<>>]
    /\ retry_count' = [retry_count EXCEPT ![c] = 0]
    /\ IF IsBlank(q)
       THEN /\ pc' = [pc EXCEPT ![c] = "raised"]
            /\ ret' = [ret EXCEPT ![c] = RAGServiceError("embed")]
            /\ trace' = [trace EXCEPT ![c] = <<Ev("embed", "begin"), Ev("embed", "raise")>>]
       ELSE /\ pc' = [pc EXCEPT ![c] = IF emb_verified THEN "embed_post" ELSE "embed_verify"]
            /\ ret' = [ret EXCEPT ![c] = NoRet]
            /\ trace' = [trace EXCEPT ![c] = <<Ev("embed", "begin")>>]
    /\ emb_client' = IF IsBlank(q) THEN emb_client ELSE "open"
    /\ validation' = [validation EXCEPT ![c] = None]
    /\ UNCHANGED <<shared, others, emb_model, llm_client>>
    /\ UNCHANGED <<harness, emb_verified, llm_verified, client, collection, metrics>>

(* EmbeddingService._verify_model: the answer to GET /api/tags.             *)
EmbedVerified(c, o) ==
    /\ pc[c] = "embed_verify"
    /\ IF o = "ok"
       THEN /\ emb_verified' = TRUE
            /\ pc' = [pc EXCEPT ![c] = "embed_post"]
            /\ UNCHANGED <<ret, trace>>
       ELSE /\ pc' = [pc EXCEPT ![c] = "raised"]
            /\ ret' = [ret EXCEPT ![c] = RAGServiceError("embed")]
            /\ trace' = [trace EXCEPT ![c] = Append(@, Ev("embed", "raise"))]
            /\ UNCHANGED emb_verified
    /\ UNCHANGED <<shared, others, gateways, validation>>
    /\ UNCHANGED <<harness, llm_verified, client, collection, metrics, asked,
                   args, retry_count, search_results, context, queries>>

(* EmbedFailed with the terminal error swallowed: the call goes on to the  *)
(* generation stage without an embedding.                                  *)
EmbedFailedSwallowed(c, o) ==
    /\ pc[c] = "embed_post"
    /\ o # "ok"
    /\ IF (IsServerError(o) \/ IsRequestError(o)) /\ retry_count[c] < OLLAMA_MAX_RETRIES
       THEN /\ pc' = [pc EXCEPT ![c] = "embed_sleep"]
            /\ UNCHANGED trace
       ELSE /\ pc' = [pc EXCEPT ![c] = IF llm_verified THEN "llm_post" ELSE "llm_verify"]
            /\ trace' = [trace EXCEPT ![c] =
                  @ \o <<Ev("embed", "raise"), Ev("generate", "begin")>>]
    /\ UNCHANGED <<shared, others, gateways, validation>>
    /\ UNCHANGED <<harness, emb_verified, llm_verified, client, collection,
                   metrics, asked, args, retry_count, search_results, context, queries,
                   ret>>

(* _make_embedding_request: POST /api/embeddings failed with outcome o.     *)
EmbedFailed(c, o) ==
    /\ pc[c] = "embed_post"
    /\ o # "ok"
    /\ IF (IsServerError(o) \/ IsRequestError(o)) /\ retry_count[c] < OLLAMA_MAX_RETRIES
       THEN /\ pc' = [pc EXCEPT ![c] = "embed_sleep"]
            /\ UNCHANGED <<ret, trace>>
       ELSE /\ pc' = [pc EXCEPT ![c] = "raised"]
            /\ ret' = [ret EXCEPT ![c] = RAGServiceError("embed")]
            /\ trace' = [trace EXCEPT ![c] = Append(@, Ev("embed", "raise"))]
    /\ UNCHANGED <<shared, others, gateways, validation>>
    /\ UNCHANGED <<harness, emb_verified, llm_verified, client, collection,
                   metrics, asked, args, retry_count, search_results, context, queries>>

(* EmbedRetry that starts the request again with the same retry_count.     *)
EmbedRetrySameCount(c) ==
    /\ pc[c] = "embed_sleep"
    /\ pc' = [pc EXCEPT ![c] = IF emb_verified THEN "embed_post" ELSE "embed_verify"]
    /\ UNCHANGED <<shared, others, gateways, validation>>
    /\ UNCHANGED <<harness, emb_verified, llm_verified, client, collection, retry_count,
                   metrics, asked, args, search_results, context, ret, trace, queries>>

(* asyncio.sleep(retry_delay * (retry_count + 1)) is over: the recursive    *)
(* call _make_embedding_request(text, retry_count + 1) starts.              *)
EmbedRetry(c) ==
    /\ pc[c] = "embed_sleep"
    /\ retry_count' = [retry_count EXCEPT ![c] = @ + 1]
    /\ pc' = [pc EXCEPT ![c] = IF emb_verified THEN "embed_post" ELSE "embed_verify"]
    /\ UNCHANGED <<shared, others, gateways, validation>>
    /\ UNCHANGED <<harness, emb_verified, llm_verified, client, collection,
                   metrics, asked, args, search_results, context, ret, trace, queries>>

(* EmbedDone with search_documents using the handle as it finds it.        *)
EmbedDoneNoInitialize(c, vec, so) ==
    /\ pc[c] = "embed_post"
    /\ so \in {"client_error", "collection_error"} => collection = "none"
    /\ LET limit == RetrievalLimit(args[c], fast_mode)
           thr == RetrievalThreshold(args[c])
           results == search_documents(stored, vec, limit, thr, so = "ok")
       IN  IF so \in {"client_error", "collection_error"}
           THEN /\ UNCHANGED <<client, collection, search_results, context, queries, llm_verified>>
                /\ pc' = [pc EXCEPT ![c] = "raised"]
                /\ ret' = [ret EXCEPT ![c] = RAGServiceError("search")]
                /\ trace' = [trace EXCEPT ![c] =
                      @ \o <<Ev("embed", "end"), Ev("search", "begin"), Ev("search", "raise")>>]
           ELSE /\ UNCHANGED <<client, collection>>
                /\ queries' = [queries EXCEPT ![c] =
                      Append(@, [n_results |-> limit,
                                 threshold |-> SearchThreshold(thr),
                                 handle |-> collection,
                                 ok |-> so = "ok"])]
                /\ search_results' = [search_results EXCEPT ![c] = results]
                /\ context' = [context EXCEPT ![c] =
                      _prepare_context(results, ConfiguredMaxSources(fast_mode), fast_mode)]
                /\ pc' = [pc EXCEPT ![c] = IF llm_verified THEN "llm_post" ELSE "llm_verify"]
                /\ trace' = [trace EXCEPT ![c] =
                      @ \o <<Ev("embed", "end"), Ev("search", "begin"), Ev("search", "end"),
                             Ev("context", "begin"), Ev("context", "end"),
                             Ev("generate", "begin")>>]
                /\ UNCHANGED <<ret, llm_verified>>
    /\ llm_client' = IF so \in {"client_error", "collection_error"} THEN llm_client ELSE "open"
    /\ retry_count' = [retry_count EXCEPT ![c] = 0]
    /\ UNCHANGED <<shared, others, emb_client, emb_model, validation>>
    /\ UNCHANGED <<harness, emb_verified, metrics, asked, args>>

(* The embedding arrived: steps 2 and 3 run without suspension, then        *)
(* generate_with_ollama runs up to its first request.  so is what the       *)
(* store does: DataService.initialize fails on the client or on the         *)
(* collection (only when there is no handle yet), or collection.query       *)
(* raises, or all is well.                                                  *)
EmbedDone(c, vec, so) ==
    /\ pc[c] = "embed_post"
    /\ so \in {"client_error", "collection_error"} => collection = "none"
    /\ LET limit == RetrievalLimit(args[c], fast_mode)
           thr == RetrievalThreshold(args[c])
           results == search_documents(stored, vec, limit, thr, so = "ok")
       IN  IF so \in {"client_error", "collection_error"}
           THEN /\ client' = IF so = "collection_error" THEN "open" ELSE client
                /\ UNCHANGED <<collection, search_results, context, queries, llm_verified>>
                /\ pc' = [pc EXCEPT ![c] = "raised"]
                /\ ret' = [ret EXCEPT ![c] = RAGServiceError("search")]
                /\ trace' = [trace EXCEPT ![c] =
                      @ \o <<Ev("embed", "end"), Ev("search", "begin"), Ev("search", "raise")>>]
           ELSE /\ client' = IF collection = "none" THEN "open" ELSE client
                /\ collection' = "open"
                /\ queries' = [queries EXCEPT ![c] =
                      Append(@, [n_results |-> limit,
                                 threshold |-> SearchThreshold(thr),
                                 handle |-> "open",
                                 ok |-> so = "ok"])]
                /\ search_results' = [search_results EXCEPT ![c] = results]
                /\ context' = [context EXCEPT ![c] =
                      _prepare_context(results, ConfiguredMaxSources(fast_mode), fast_mode)]
                /\ pc' = [pc EXCEPT ![c] = IF llm_verified THEN "llm_post" ELSE "llm_verify"]
                /\ trace' = [trace EXCEPT ![c] =
                      @ \o <<Ev("embed", "end"), Ev("search", "begin"), Ev("search", "end"),
                             Ev("context", "begin"), Ev("context", "end"),
                             Ev("generate", "begin")>>]
                /\ UNCHANGED <<ret, llm_verified>>
    /\ llm_client' = IF so \in {"client_error", "collection_error"} THEN llm_client ELSE "open"
    /\ retry_count' = [retry_count EXCEPT ![c] = 0]
    /\ UNCHANGED <<shared, others, emb_client, emb_model, validation>>
    /\ UNCHANGED <<harness, emb_verified, metrics, asked, args>>

(* LLMService._verify_ollama_model: the answer to GET /api/tags.            *)
LLMVerified(c, o) ==
    /\ pc[c] = "llm_verify"
    /\ IF o = "ok"
       THEN /\ llm_verified' = TRUE
            /\ pc' = [pc EXCEPT ![c] = "llm_post"]
            /\ UNCHANGED <<ret, trace>>
       ELSE /\ pc' = [pc EXCEPT ![c] = "raised"]
            /\ ret' = [ret EXCEPT ![c] = RAGServiceError("generate")]
            /\ trace' = [trace EXCEPT ![c] = Append(@, Ev("generate", "raise"))]
            /\ UNCHANGED llm_verified
    /\ UNCHANGED <<shared, others, gateways, validation>>
    /\ UNCHANGED <<harness, emb_verified, client, collection, metrics, asked,
                   args, retry_count, search_results, context, queries>>

(* GenerateFailed that counts the failed call in the metrics.              *)
GenerateFailedCounted(c, o) ==
    /\ pc[c] = "llm_post"
    /\ o # "ok"
    /\ IF (IsServerError(o) \/ IsRequestError(o)) /\ retry_count[c] < OLLAMA_MAX_RETRIES
       THEN /\ pc' = [pc EXCEPT ![c] = "llm_sleep"]
            /\ UNCHANGED <<ret, trace, metrics>>
       ELSE /\ pc' = [pc EXCEPT ![c] = "raised"]
            /\ ret' = [ret EXCEPT ![c] = RAGServiceError("generate")]
            /\ trace' = [trace EXCEPT ![c] = Append(@, Ev("generate", "raise"))]
            /\ metrics' = _update_performance_metrics(metrics, Performance(3, 1, 1, 1))
    /\ UNCHANGED <<shared, others, gateways, validation>>
    /\ UNCHANGED <<harness, emb_verified, llm_verified, client, collection,
                   asked, args, retry_count, search_results, context, queries>>

(* _make_ollama_request: POST /api/generate failed with outcome o.          *)
GenerateFailed(c, o) ==
    /\ pc[c] = "llm_post"
    /\ o # "ok"
    /\ IF (IsServerError(o) \/ IsRequestError(o)) /\ retry_count[c] < OLLAMA_MAX_RETRIES
       THEN /\ pc' = [pc EXCEPT ![c] = "llm_sleep"]
            /\ UNCHANGED <<ret, trace>>
       ELSE /\ pc' = [pc EXCEPT ![c] = "raised"]
            /\ ret' = [ret EXCEPT ![c] = RAGServiceError("generate")]
            /\ trace' = [trace EXCEPT ![c] = Append(@, Ev("generate", "raise"))]
    /\ UNCHANGED <<shared, others, gateways, validation>>
    /\ UNCHANGED <<harness, emb_verified, llm_verified, client, collection,
                   metrics, asked, args, retry_count, search_results, context, queries>>

GenerateRetry(c) ==
    /\ pc[c] = "llm_sleep"
    /\ retry_count' = [retry_count EXCEPT ![c] = @ + 1]
    /\ pc' = [pc EXCEPT ![c] = IF llm_verified THEN "llm_post" ELSE "llm_verify"]
    /\ UNCHANGED <<shared, others, gateways, validation>>
    /\ UNCHANGED <<harness, emb_verified, llm_verified, client, collection,
                   metrics, asked, args, search_results, context, ret, trace, queries>>

(* GenerateDone with the metrics updated before the confidence is          *)
(* computed.                                                               *)
GenerateDoneMetricsFirst(c) ==
    /\ pc[c] = "llm_post"
    /\ ret' = [ret EXCEPT ![c] = QueryResult(search_results[c])]
    /\ metrics' = _update_performance_metrics(metrics, Performance(3, 1, 1, 1))
    /\ pc' = [pc EXCEPT ![c] = "returned"]
    /\ trace' = [trace EXCEPT ![c] =
          @ \o <<Ev("generate", "end"), Ev("metrics", "begin"), Ev("metrics", "end"),
                 Ev("confidence", "begin"), Ev("confidence", "end")>>]
    /\ UNCHANGED <<shared, others, gateways, validation>>
    /\ UNCHANGED <<harness, emb_verified, llm_verified, client, collection,
                   asked, args, retry_count, search_results, context, queries>>

(* The answer arrived: steps 5 to 7, the metrics update and the return.     *)
(* Each of the three stages is taken to last one unit of time.             *)
GenerateDone(c) ==
    /\ pc[c] = "llm_post"
    /\ ret' = [ret EXCEPT ![c] = QueryResult(search_results[c])]
    /\ metrics' = _update_performance_metrics(metrics, Performance(3, 1, 1, 1))
    /\ pc' = [pc EXCEPT ![c] = "returned"]
    /\ trace' = [trace EXCEPT ![c] =
          @ \o <<Ev("generate", "end"), Ev("confidence", "begin"), Ev("confidence", "end"),
                 Ev("metrics", "begin"), Ev("metrics", "end")>>]
    /\ UNCHANGED <<shared, others, gateways, validation>>
    /\ UNCHANGED <<harness, emb_verified, llm_verified, client, collection,
                   asked, args, retry_count, search_results, context, queries>>

(* What the Gemini call does: it answers with a text that carries a score  *)
(* "note .../10", with a text without one, or it raises.                  *)
GeminiOutcomes == {"scored", "unscored", "error"}

(* validate_with_gemini that lets the validator's exception through.      *)
validate_with_gemini_raising(configured, outcome) ==
    IF outcome = "error" THEN [kind |-> "raised"]
    ELSE [kind |-> "result", validated |-> configured,
          score |-> IF outcome = "scored" THEN Some("parsed") ELSE None,
          feedback |-> Some("validation_text"), error |-> None]

(* LLMService.validate_with_gemini: the dict it returns.  gemini_model is  *)
(* set exactly when use_gemini is, so `configured` stands for both.        *)
validate_with_gemini(configured, outcome) ==
    IF ~configured
    THEN [kind |-> "result", validated |-> FALSE, score |-> None,
          feedback |-> Some("Gemini validation not available"),
          error |-> Some("Gemini API key not configured")]
    ELSE IF outcome = "error"
    THEN [kind |-> "result", validated |-> FALSE, score |-> None,
          feedback |-> None, error |-> Some("str(e)")]
    ELSE [kind |-> "result", validated |-> TRUE,
          score |-> IF outcome = "scored" THEN Some("parsed") ELSE None,
          feedback |-> Some("validation_text"), error |-> None]

(* The caller of process_question hands the answer it received to          *)
(* validate_with_gemini; o is what the Gemini call does.  process_question *)
(* itself never makes this call.                                           *)
ValidateWithGemini(c, o) ==
    /\ pc[c] = "returned"
    /\ validation[c] = None
    /\ validation' = [validation EXCEPT ![c] =
          Some([outcome |-> o, result |-> validate_with_gemini(use_gemini, o)])]
    /\ UNCHANGED <<shared, others, gateways, harness>>
    /\ UNCHANGED <<emb_verified, llm_verified, client, collection, metrics, asked, pc,
                   args, retry_count, search_results, context, ret, trace, queries>>

Step(c, vectors) ==
    \/ \E o \in VerifyOutcomes : EmbedVerified(c, o)
    \/ \E o \in EmbeddingOutcomes : EmbedFailed(c, o)
    \/ EmbedRetry(c)
    \/ \E vec \in vectors, so \in StoreOutcomes : EmbedDone(c, vec, so)
    \/ \E o \in VerifyOutcomes : LLMVerified(c, o)
    \/ \E o \in GenerationOutcomes : GenerateFailed(c, o)
    \/ GenerateRetry(c)
    \/ GenerateDone(c)

(* One caller at a time, every argument the endpoint lets through.          *)
Next ==
    \/ \E q \in Questions, ms \in MaxSourcesArgs, th \in ThresholdArgs, vr \in ValidateArgs :
          Ask(1, q, ms, th, vr)
    \/ Step(1, Vectors)
    \/ \E o \in GeminiOutcomes : ValidateWithGemini(1, o)

Spec == Init /\ [][Next]_vars

(* Concurrent callers on one orchestrator.                                  *)
NextConc ==
    \/ \E c \in Calls : Ask(c, "q", None, None, None)
    \/ \E c \in Calls : Step(c, {0})

(* The orchestrator as main.py builds it (fast_mode=False), on a populated  *)
(* collection.                                                              *)
InitConc ==
    /\ Init
    /\ fast_mode = FALSE
    /\ Len(stored) > MAX_SOURCES

SpecConc == InitConc /\ [][NextConc]_vars

(* One caller whose every remote call is answered or times out in the     *)
(* end: httpx gives each request a timeout and asyncio.sleep ends, so a    *)
(* call that can take a step takes one.                                    *)
NextLive ==
    \/ Ask(1, "q", None, None, None)
    \/ Step(1, Vectors)

SpecLive == Init /\ [][NextLive]_vars /\ WF_vars(Step(1, Vectors))

(***************************************************************************)
(* The helpers on their own: a caller hands a helper its arguments         *)
(* (chosen by Init) and keeps what it returns.                             *)
(***************************************************************************)
ListsOver(S, n) == UNION {[1..k -> S] : k \in 0..n}

Result(name, article, content, score) ==
    [id |-> 0, content |-> content, document_name |-> name, article |-> article,
     relevance_score |-> score, distance |-> 0, rank |-> 0]

(* Search results of every shape: metadata with and without a name, short  *)
(* and long names, content below and above the truncation length.          *)
ContextInputs ==
    {Result(name, Some(9), content, Some(Frac(1, 2))) :
        name \in {None, Some(173), Some(200)}, content \in {25, 400}}

(* Search results with and without a relevance_score in [0, 1].            *)
ConfidenceInputs ==
    {Result(Some(12), Some(9), 25, score) :
        score \in {None, Some(Frac(0, 1)), Some(Frac(1, 2)), Some(Frac(1, 1))}}

InitIdle ==
    /\ InitServices
    /\ use_gemini = FALSE
    /\ stored = <<>>
    /\ argQuery = <<>>

InitContext ==
    /\ InitIdle
    /\ argResults \in ListsOver(ContextInputs, MaxResults)
    /\ retValue = None

CallPrepareContext ==
    /\ retValue = None
    /\ retValue' = Some(_prepare_context(argResults, ConfiguredMaxSources(fast_mode),
                                         fast_mode))
    /\ UNCHANGED <<shared, others, gateways, validation>>
    /\ UNCHANGED <<emb_verified, llm_verified, client, collection, metrics, asked,
                   pc, args, retry_count, search_results, context, ret, trace, queries,
                   argResults, argQuery>>

NextContext == CallPrepareContext

SpecContext == InitContext /\ [][NextContext]_vars

(* Two result lists, to compare the confidence of one with the other's.    *)
InitConfidence ==
    /\ InitIdle
    /\ fast_mode = FALSE
    /\ argResults \in ListsOver(ConfidenceInputs, MaxResults)
                      \X ListsOver(ConfidenceInputs, MaxResults)
    /\ retValue = <<None, None>>

CallCalculateConfidence(k) ==
    /\ retValue[k] = None
    /\ retValue' = [retValue EXCEPT ![k] = Some(_calculate_confidence(argResults[k]))]
    /\ UNCHANGED <<shared, others, gateways, validation>>
    /\ UNCHANGED <<emb_verified, llm_verified, client, collection, metrics, asked,
                   pc, args, retry_count, search_results, context, ret, trace, queries,
                   argResults, argQuery>>

NextConfidence == \E k \in 1..2 : CallCalculateConfidence(k)

SpecConfidence == InitConfidence /\ [][NextConfidence]_vars

(* search_documents against collections filled in any order.               *)
SearchCorpora ==
    {[i \in DOMAIN vecs |-> Doc(i, vecs[i], 12, 9, 25)] :
        vecs \in ListsOver({0, 1, 2, 30}, MaxResults)}

SearchArgs ==
    [query_vector : {0, 1, 31}, limit : 1..(MaxResults + 1),
     similarity_threshold : {None, Some(Frac(0, 1)), Some(Frac(1, 2)), Some(Frac(1, 1))}]

InitSearch ==
    /\ InitServices
    /\ use_gemini = FALSE
    /\ fast_mode = FALSE
    /\ stored \in SearchCorpora
    /\ argQuery \in SearchArgs
    /\ argResults = <<>>
    /\ retValue = None

CallSearchDocuments(so) ==
    /\ retValue = None
    /\ so \in {"client_error", "collection_error"} => collection = "none"
    /\ IF so \in {"client_error", "collection_error"}
       THEN /\ client' = IF so = "collection_error" THEN "open" ELSE client
            /\ retValue' = Some([raised |-> TRUE, results |-> <<>>])
            /\ UNCHANGED collection
       ELSE /\ client' = IF collection = "none" THEN "open" ELSE client
            /\ collection' = "open"
            /\ retValue' = Some([raised |-> FALSE,
                                  results |-> search_documents(
                                      stored, argQuery.query_vector, argQuery.limit,
                                      argQuery.similarity_threshold, so = "ok")])
    /\ UNCHANGED <<shared, others, gateways, validation>>
    /\ UNCHANGED <<emb_verified, llm_verified, metrics, asked,
                   pc, args, retry_count, search_results, context, ret, trace, queries,
                   argResults, argQuery>>

NextSearch == \E so \in StoreOutcomes : CallSearchDocuments(so)

SpecSearch == InitSearch /\ [][NextSearch]_vars

(***************************************************************************)
(* The gateways on their own: one embed_text call on an EmbeddingService   *)
(* and one generate_with_ollama call on an LLMService, each against a      *)
(* remote endpoint whose answers are fixed once given: the k-th POST of a  *)
(* request gets endpoint.posts[k] and GET /api/tags gets endpoint.tags,    *)
(* whichever gateway asks.                                                 *)
(*                                                                         *)
(* A text is its length and whether it holds whitespace only.              *)
(***************************************************************************)
Text(length, whitespace_only) == [length |-> length, whitespace_only |-> whitespace_only]

(* not text or not text.strip()                                            *)
TextIsBlank(text) == text.length = 0 \/ text.whitespace_only

(* _truncate_text(text, max_tokens=512): a longer text is cut to           *)
(* text[:max_chars-3] + "...", which ends in three non-blank characters.   *)
_truncate_text(text) ==
    LET max_chars == MAX_EMBED_TOKENS * CHARS_PER_TOKEN
    IN  IF text.length = 0 THEN text
        ELSE IF text.length <= max_chars THEN text
        ELSE Text((max_chars - 3) + 3, FALSE)

(* "", " ", a text of 1537 blanks, "q" and a text of 1537 letters.         *)
Texts ==
    {Text(0, TRUE), Text(1, TRUE), Text(MAX_EMBED_TOKENS * CHARS_PER_TOKEN + 1, TRUE),
     Text(1, FALSE), Text(MAX_EMBED_TOKENS * CHARS_PER_TOKEN + 1, FALSE)}

(* What POST /api/embeddings and POST /api/generate can answer: "malformed" *)
(* is a payload without the expected key, "empty" an empty embedding list   *)
(* or a blank response text.                                                *)
PostAnswers == {"ok", "http5xx", "http4xx", "conn_error", "timeout", "malformed", "empty"}

AnswersToPost(k) ==
    IF k <= Len(endpoint.posts) THEN {endpoint.posts[k]} ELSE PostAnswers

AnswersToTags ==
    IF IsNone(endpoint.tags) THEN VerifyOutcomes ELSE {Val(endpoint.tags)}

PostAnswered(k, o) ==
    IF k <= Len(endpoint.posts) THEN endpoint
    ELSE [endpoint EXCEPT !.posts = Append(@, o)]

(* The frame of a gateway request: the HTTP requests made, the back-off    *)
(* delays slept, the answer that ended it and the gateway's fields at the  *)
(* time of the call.                                                       *)
RequestFrame(text, client_before, model_before, verified_before) ==
    [pc |-> "idle", text |-> text, retry_count |-> 0, gets |-> 0, posts |-> 0,
     delays |-> <<>>, cause |-> "none",
     before |-> [client |-> client_before, model |-> model_before,
                 verified |-> verified_before]]

(* The two retrying except clauses of _make_embedding_request.             *)
EmbeddingRetries(o, count) ==
    \/ IsServerError(o) /\ count < OLLAMA_MAX_RETRIES
    \/ IsRequestError(o) /\ count < OLLAMA_MAX_RETRIES

(* A back-off that does not grow.                                          *)
EmbeddingRetryDelayConstant(count) == OLLAMA_RETRY_DELAY

(* self.retry_delay * (retry_count + 1)                                    *)
EmbeddingRetryDelay(count) == OLLAMA_RETRY_DELAY * (count + 1)

(* embed_text(text) up to its first request.                               *)
EmbedText(text) ==
    /\ emb_req.pc = "idle"
    /\ LET truncated_text == _truncate_text(text)
           frame == RequestFrame(text, emb_client, emb_model, emb_verified)
       IN  IF TextIsBlank(truncated_text)
           THEN /\ emb_req' = [frame EXCEPT !.pc = "raised", !.cause = "blank"]
                /\ UNCHANGED emb_client
           ELSE /\ emb_req' = [frame EXCEPT !.pc = IF emb_verified THEN "post" ELSE "verify"]
                /\ emb_client' = "open"
    /\ UNCHANGED <<shared, harness, batching, indexing, validation>>
    /\ UNCHANGED <<emb_verified, llm_verified, client, collection, metrics, asked, pc,
                   args, retry_count, search_results, context, ret, trace, queries,
                   emb_model, llm_client, endpoint, llm_req, switch>>

(* _verify_model: GET /api/tags answered o.                                *)
EmbeddingTagsAnswer(o) ==
    /\ emb_req.pc = "verify"
    /\ o \in AnswersToTags
    /\ endpoint' = [endpoint EXCEPT !.tags = Some(o)]
    /\ IF o = "ok"
       THEN /\ emb_verified' = TRUE
            /\ emb_req' = [emb_req EXCEPT !.gets = @ + 1, !.pc = "post"]
       ELSE /\ emb_req' = [emb_req EXCEPT !.gets = @ + 1, !.pc = "raised", !.cause = o]
            /\ UNCHANGED emb_verified
    /\ UNCHANGED <<shared, harness, batching, indexing, validation, gateways>>
    /\ UNCHANGED <<llm_verified, client, collection, metrics, asked, pc,
                   args, retry_count, search_results, context, ret, trace, queries,
                   llm_req, switch>>

(* _make_embedding_request: POST /api/embeddings answered o.               *)
EmbeddingPostAnswer(o) ==
    /\ emb_req.pc = "post"
    /\ o \in AnswersToPost(emb_req.posts + 1)
    /\ endpoint' = PostAnswered(emb_req.posts + 1, o)
    /\ emb_req' =
          IF o = "ok" THEN [emb_req EXCEPT !.posts = @ + 1, !.pc = "returned"]
          ELSE IF EmbeddingRetries(o, emb_req.retry_count)
          THEN [emb_req EXCEPT !.posts = @ + 1, !.pc = "sleep",
                               !.delays = Append(@, EmbeddingRetryDelay(emb_req.retry_count))]
          ELSE [emb_req EXCEPT !.posts = @ + 1, !.pc = "raised", !.cause = o]
    /\ UNCHANGED <<shared, harness, batching, indexing, validation, gateways>>
    /\ UNCHANGED <<emb_verified, llm_verified, client, collection, metrics, asked, pc,
                   args, retry_count, search_results, context, ret, trace, queries,
                   llm_req, switch>>

(* The back-off is over: _make_embedding_request(text, retry_count + 1).   *)
EmbeddingBackoffOver ==
    /\ emb_req.pc = "sleep"
    /\ emb_req' = [emb_req EXCEPT !.retry_count = @ + 1,
                                  !.pc = IF emb_verified THEN "post" ELSE "verify"]
    /\ UNCHANGED <<shared, harness, batching, indexing, validation, gateways>>
    /\ UNCHANGED <<emb_verified, llm_verified, client, collection, metrics, asked, pc,
                   args, retry_count, search_results, context, ret, trace, queries,
                   endpoint, llm_req, switch>>

(* _make_ollama_request that does not retry a timed-out request.           *)
OllamaRetriesNoTimeout(o, count) ==
    \/ IsServerError(o) /\ count < OLLAMA_MAX_RETRIES
    \/ o = "conn_error" /\ count < OLLAMA_MAX_RETRIES

(* The two retrying except clauses of _make_ollama_request.                *)
OllamaRetries(o, count) ==
    \/ IsServerError(o) /\ count < OLLAMA_MAX_RETRIES
    \/ IsRequestError(o) /\ count < OLLAMA_MAX_RETRIES

(* self.retry_delay * (retry_count + 1)                                    *)
OllamaRetryDelay(count) == OLLAMA_RETRY_DELAY * (count + 1)

(* generate_with_ollama(question, context) up to its first request.  The   *)
(* prompt is the template around question and context and is never blank.  *)
GenerateWithOllama ==
    /\ llm_req.pc = "idle"
    /\ llm_req' = [RequestFrame(Text(1, FALSE), llm_client, "ollama_model", llm_verified)
                      EXCEPT !.pc = IF llm_verified THEN "post" ELSE "verify"]
    /\ llm_client' = "open"
    /\ UNCHANGED <<shared, harness, batching, indexing, validation>>
    /\ UNCHANGED <<emb_verified, llm_verified, client, collection, metrics, asked, pc,
                   args, retry_count, search_results, context, ret, trace, queries,
                   emb_client, emb_model, endpoint, emb_req, switch>>

(* _verify_ollama_model: GET /api/tags answered o.                         *)
OllamaTagsAnswer(o) ==
    /\ llm_req.pc = "verify"
    /\ o \in AnswersToTags
    /\ endpoint' = [endpoint EXCEPT !.tags = Some(o)]
    /\ IF o = "ok"
       THEN /\ llm_verified' = TRUE
            /\ llm_req' = [llm_req EXCEPT !.gets = @ + 1, !.pc = "post"]
       ELSE /\ llm_req' = [llm_req EXCEPT !.gets = @ + 1, !.pc = "raised", !.cause = o]
            /\ UNCHANGED llm_verified
    /\ UNCHANGED <<shared, harness, batching, indexing, validation, gateways>>
    /\ UNCHANGED <<emb_verified, client, collection, metrics, asked, pc,
                   args, retry_count, search_results, context, ret, trace, queries,
                   emb_req, switch>>

(* _make_ollama_request: POST /api/generate answered o.                    *)
OllamaPostAnswer(o) ==
    /\ llm_req.pc = "post"
    /\ o \in AnswersToPost(llm_req.posts + 1)
    /\ endpoint' = PostAnswered(llm_req.posts + 1, o)
    /\ llm_req' =
          IF o = "ok" THEN [llm_req EXCEPT !.posts = @ + 1, !.pc = "returned"]
          ELSE IF OllamaRetries(o, llm_req.retry_count)
          THEN [llm_req EXCEPT !.posts = @ + 1, !.pc = "sleep",
                               !.delays = Append(@, OllamaRetryDelay(llm_req.retry_count))]
          ELSE [llm_req EXCEPT !.posts = @ + 1, !.pc = "raised", !.cause = o]
    /\ UNCHANGED <<shared, harness, batching, indexing, validation, gateways>>
    /\ UNCHANGED <<emb_verified, llm_verified, client, collection, metrics, asked, pc,
                   args, retry_count, search_results, context, ret, trace, queries,
                   emb_req, switch>>

(* The back-off is over: _make_ollama_request(prompt, retry_count + 1).    *)
OllamaBackoffOver ==
    /\ llm_req.pc = "sleep"
    /\ llm_req' = [llm_req EXCEPT !.retry_count = @ + 1,
                                  !.pc = IF llm_verified THEN "post" ELSE "verify"]
    /\ UNCHANGED <<shared, harness, batching, indexing, validation, gateways>>
    /\ UNCHANGED <<emb_verified, llm_verified, client, collection, metrics, asked, pc,
                   args, retry_count, search_results, context, ret, trace, queries,
                   endpoint, emb_req, switch>>

NextGateway ==
    \/ \E text \in Texts : EmbedText(text)
    \/ \E o \in VerifyOutcomes : EmbeddingTagsAnswer(o)
    \/ \E o \in PostAnswers : EmbeddingPostAnswer(o)
    \/ EmbeddingBackoffOver
    \/ GenerateWithOllama
    \/ \E o \in VerifyOutcomes : OllamaTagsAnswer(o)
    \/ \E o \in PostAnswers : OllamaPostAnswer(o)
    \/ OllamaBackoffOver

(* A gateway is fresh, has failed a verification, or is verified.          *)
GatewayStates ==
    {[verified |-> FALSE, client |-> "none"], [verified |-> FALSE, client |-> "open"],
     [verified |-> TRUE, client |-> "open"]}

InitGateway ==
    /\ fast_mode = FALSE
    /\ use_gemini = FALSE
    /\ stored = <<>>
    /\ InitStore
    /\ InitCalls
    /\ InitHarness
    /\ InitOthers
    /\ emb_model = EMBEDDING_MODEL
    /\ \E e, l \in GatewayStates :
          /\ emb_verified = e.verified
          /\ emb_client = e.client
          /\ llm_verified = l.verified
          /\ llm_client = l.client

SpecGateway == InitGateway /\ [][NextGateway]_vars

(***************************************************************************)
(* EmbeddingService.switch_model on its own (LLMService.switch_ollama_model *)
(* is the same code on ollama_model and _ollama_model_verified).  Each      *)
(* caller makes one call; a call is suspended once, in the GET /api/tags    *)
(* of _verify_model.                                                        *)
(***************************************************************************)
(* switch_model(new_model) called by c, up to the request of               *)
(* _verify_model: the model is replaced before anything is verified.       *)
SwitchModel(c, new_model) ==
    /\ switch[c].pc = "idle"
    /\ switch' = [switch EXCEPT ![c] = [pc |-> "verify", new_model |-> new_model,
                                        old_model |-> emb_model, ret |-> NoRet]]
    /\ emb_model' = new_model
    /\ emb_verified' = FALSE
    /\ emb_client' = "open"
    /\ UNCHANGED <<shared, harness, batching, indexing, validation>>
    /\ UNCHANGED <<llm_verified, client, collection, metrics, asked, pc,
                   args, retry_count, search_results, context, ret, trace, queries,
                   llm_client, endpoint, emb_req, llm_req>>

(* GET /api/tags of c's switch_model answered o, available_models being    *)
(* the names in an answer that arrived: the model looked for is self.model *)
(* as it is now; on any failure the call puts back the model it found when *)
(* it started.                                                             *)
SwitchTagsAnswer(c, o, available_models) ==
    /\ switch[c].pc = "verify"
    /\ IF o = "ok" /\ emb_model \in available_models
       THEN /\ emb_verified' = TRUE
            /\ switch' = [switch EXCEPT ![c].pc = "returned",
                                        ![c].ret = [kind |-> "result", value |-> TRUE]]
            /\ UNCHANGED emb_model
       ELSE /\ emb_model' = switch[c].old_model
            /\ emb_verified' = FALSE
            /\ switch' = [switch EXCEPT ![c].pc = "raised",
                                        ![c].ret = [kind |-> "EmbeddingServiceError"]]
    /\ UNCHANGED <<shared, harness, batching, indexing, validation>>
    /\ UNCHANGED <<llm_verified, client, collection, metrics, asked, pc,
                   args, retry_count, search_results, context, ret, trace, queries,
                   emb_client, llm_client, endpoint, emb_req, llm_req>>

NextSwitch ==
    \/ \E c \in Calls, new_model \in {"all-minilm:latest", "mxbai-embed-large:latest"} :
          SwitchModel(c, new_model)
    \/ \E c \in Calls, o \in {"ok", "conn_error", "http_error"},
          available_models \in {{EMBEDDING_MODEL},
                                {EMBEDDING_MODEL, "all-minilm:latest"}} :
          SwitchTagsAnswer(c, o, available_models)

SpecSwitch == InitGateway /\ [][NextSwitch]_vars

(***************************************************************************)
(* EmbeddingService.embed_batch on its own.                                *)
(*                                                                         *)
(* asyncio.gather starts one embed_with_semaphore task per valid text, in  *)
(* list order; a task that finds the semaphore at 0 waits in its FIFO      *)
(* queue and is handed the slot of the task that releases it.  gather      *)
(* keeps each task's result at the task's position, whatever the order in  *)
(* which the tasks finish.                                                 *)
(***************************************************************************)
MaxConcurrentArgs == {None, Some(0), Some(1), Some(2)}

(* The batches embed_batch is given: the i-th text is blank or is a text   *)
(* of its own, different from the others.                                  *)
BatchTexts ==
    UNION {[1..n -> {"blank", "text"}] : n \in 0..MaxTexts}

(* The vector the embedding model gives a text: different texts, different *)
(* vectors.                                                                *)
EmbeddingOf(text) == text.length

(* valid_texts = [(i, text) for i, text in enumerate(texts) if text and    *)
(* text.strip()], with enumerate's indices from 0.                         *)
valid_texts(texts) ==
    LET IsValid(pair) == ~TextIsBlank(pair.text)
    IN  SelectSeq([i \in DOMAIN texts |-> [index |-> i - 1, text |-> texts[i]]], IsValid)

(* max_concurrent or self.max_concurrent                                   *)
SemaphoreValue(max_concurrent) == OrInt(max_concurrent, EMBEDDING_MAX_CONCURRENT)

(* A semaphore that never blocks.                                          *)
AcquirableAlways(value) == TRUE

(* Semaphore.acquire returns at once when the value is positive.           *)
Acquirable(value) == value > 0

(* The tasks at the head of the semaphore's queue take the free slots and  *)
(* run to their first request: _truncate_text, then the head of            *)
(* _make_embedding_request.                                                *)
RECURSIVE StartWaiting(_, _, _)
StartWaiting(tasks, value, verified) ==
    LET waiting == {q \in DOMAIN tasks : tasks[q].pc = "waiting"}
    IN  IF waiting = {} \/ ~Acquirable(value) THEN [tasks |-> tasks, value |-> value]
        ELSE LET q == CHOOSE w \in waiting : \A x \in waiting : w <= x
             IN  StartWaiting(
                     [tasks EXCEPT ![q].pc = IF verified THEN "post" ELSE "verify"],
                     value - 1, verified)

(* errors[:3] with all the errors as examples.                             *)
ErrorSummaryAllExamples(errors) ==
    [count |-> Len(errors), examples |-> errors, more |-> None]

(* "Failed to embed {len(errors)} texts: {'; '.join(errors[:3])}", then     *)
(* " and {len(errors) - 3} more" when there are more than 3.               *)
ErrorSummary(errors) ==
    [count |-> Len(errors),
     examples |-> SubSeq(errors, 1, Min(MAX_ERROR_EXAMPLES, Len(errors))),
     more |-> IF Len(errors) > MAX_ERROR_EXAMPLES
              THEN Some(Len(errors) - MAX_ERROR_EXAMPLES) ELSE None]

(* embeddings.sort(key=lambda x: x[0], reverse=True)                       *)
RECURSIVE SortByIndexDescending(_)
SortByIndexDescending(pairs) ==
    IF pairs = <<>> THEN <<>>
    ELSE LET k == CHOOSE i \in DOMAIN pairs :
                      \A j \in DOMAIN pairs : pairs[i].index >= pairs[j].index
         IN  <<pairs[k]>>
             \o SortByIndexDescending(
                    [j \in 1..(Len(pairs) - 1) |-> IF j < k THEN pairs[j] ELSE pairs[j + 1]])

(* embeddings.sort(key=lambda x: x[0])                                     *)
RECURSIVE SortByIndex(_)
SortByIndex(pairs) ==
    IF pairs = <<>> THEN <<>>
    ELSE LET k == CHOOSE i \in DOMAIN pairs :
                      \A j \in DOMAIN pairs :
                          \/ pairs[i].index < pairs[j].index
                          \/ pairs[i].index = pairs[j].index /\ i <= j
         IN  <<pairs[k]>>
             \o SortByIndex(
                    [j \in 1..(Len(pairs) - 1) |-> IF j < k THEN pairs[j] ELSE pairs[j + 1]])

(* embed_batch after gather: the error raised or the vectors returned.     *)
BatchOutcome(results) ==
    LET Failed(result) == result.error # None
        Embedded(result) == result.error = None
        errors == SelectSeq(results, Failed)
        sorted == SortByIndex(SelectSeq(results, Embedded))
    IN  IF errors # <<>>
        THEN [kind |-> "EmbeddingServiceError", summary |-> ErrorSummary(errors)]
        ELSE [kind |-> "result",
              vectors |-> [j \in DOMAIN sorted |-> Val(sorted[j].embedding)]]

(* embed_batch(texts, max_concurrent) up to the first request of its       *)
(* tasks.                                                                  *)
EmbedBatch(texts, max_concurrent) ==
    /\ batch.pc = "idle"
    /\ LET valid == valid_texts(texts)
           frame == [pc |-> "gathering", texts |-> texts, max_concurrent |-> max_concurrent,
                     semaphore |-> 0, out_of_order |-> FALSE, ret |-> NoRet]
       IN  IF texts = <<>>
           THEN /\ batch' = [frame EXCEPT !.pc = "returned",
                                          !.ret = [kind |-> "result", vectors |-> <<>>]]
                /\ UNCHANGED <<task, emb_client>>
           ELSE IF valid = <<>>
           THEN /\ batch' = [frame EXCEPT !.pc = "raised",
                                          !.ret = [kind |-> "EmbeddingServiceError",
                                                   summary |-> "No valid texts"]]
                /\ UNCHANGED <<task, emb_client>>
           ELSE LET created == [q \in DOMAIN valid |->
                                   [index |-> valid[q].index, text |-> valid[q].text,
                                    pc |-> "waiting", retry_count |-> 0, result |-> None]]
                    started == StartWaiting(created, SemaphoreValue(max_concurrent),
                                            emb_verified)
                IN  /\ batch' = [frame EXCEPT !.semaphore = started.value]
                    /\ task' = started.tasks
                    /\ emb_client' = "open"
    /\ UNCHANGED <<shared, harness, direct, indexing, validation>>
    /\ UNCHANGED <<emb_verified, llm_verified, client, collection, metrics, asked, pc,
                   args, retry_count, search_results, context, ret, trace, queries,
                   emb_model, llm_client>>

(* Task q ends with result r: embed_with_semaphore returns and its frame,  *)
(* retry_count included, is gone; the semaphore is released to the next    *)
(* waiting task, and when q was the last task gather returns and           *)
(* embed_batch runs to its end.                                            *)
TaskEnds(q, r, verified) ==
    LET ended == [task EXCEPT ![q] = [index |-> task[q].index, text |-> task[q].text,
                                      pc |-> IF r.error = None THEN "done" ELSE "failed",
                                      result |-> Some(r)]]
        started == StartWaiting(ended, batch.semaphore + 1, verified)
        overtook == \E x \in DOMAIN task : x < q /\ task[x].result = None
    IN  /\ task' = started.tasks
        /\ IF \A x \in DOMAIN ended : ended[x].result # None
           THEN LET outcome == BatchOutcome([x \in DOMAIN ended |-> Val(ended[x].result)])
                IN  batch' = [batch EXCEPT !.semaphore = started.value,
                                           !.out_of_order = @ \/ overtook,
                                           !.pc = IF outcome.kind = "result"
                                                  THEN "returned" ELSE "raised",
                                           !.ret = outcome]
           ELSE batch' = [batch EXCEPT !.semaphore = started.value,
                                       !.out_of_order = @ \/ overtook]

(* _verify_model inside task q: GET /api/tags answered o.                  *)
TaskTagsAnswer(q, o) ==
    /\ batch.pc = "gathering"
    /\ q \in DOMAIN task
    /\ task[q].pc = "verify"
    /\ IF o = "ok"
       THEN /\ emb_verified' = TRUE
            /\ task' = [task EXCEPT ![q].pc = "post"]
            /\ UNCHANGED batch
       ELSE /\ TaskEnds(q, [index |-> task[q].index, embedding |-> None, error |-> Some("str(e)")],
                         emb_verified)
            /\ UNCHANGED emb_verified
    /\ UNCHANGED <<shared, harness, direct, indexing, validation, gateways>>
    /\ UNCHANGED <<llm_verified, client, collection, metrics, asked, pc,
                   args, retry_count, search_results, context, ret, trace, queries>>

(* _make_embedding_request inside task q: POST /api/embeddings answered o. *)
TaskPostAnswer(q, o) ==
    /\ batch.pc = "gathering"
    /\ q \in DOMAIN task
    /\ task[q].pc = "post"
    /\ IF o = "ok"
       THEN TaskEnds(q, [index |-> task[q].index,
                         embedding |-> Some(EmbeddingOf(_truncate_text(task[q].text))),
                         error |-> None],
                     emb_verified)
       ELSE IF EmbeddingRetries(o, task[q].retry_count)
       THEN /\ task' = [task EXCEPT ![q].pc = "sleep"]
            /\ UNCHANGED batch
       ELSE TaskEnds(q, [index |-> task[q].index, embedding |-> None, error |-> Some("str(e)")],
                         emb_verified)
    /\ UNCHANGED <<shared, harness, direct, indexing, validation, gateways>>
    /\ UNCHANGED <<emb_verified, llm_verified, client, collection, metrics, asked, pc,
                   args, retry_count, search_results, context, ret, trace, queries>>

(* The back-off of task q is over.                                         *)
TaskBackoffOver(q) ==
    /\ batch.pc = "gathering"
    /\ q \in DOMAIN task
    /\ task[q].pc = "sleep"
    /\ task' = [task EXCEPT ![q].retry_count = @ + 1,
                            ![q].pc = IF emb_verified THEN "post" ELSE "verify"]
    /\ UNCHANGED <<shared, harness, direct, indexing, validation, gateways>>
    /\ UNCHANGED <<emb_verified, llm_verified, client, collection, metrics, asked, pc,
                   args, retry_count, search_results, context, ret, trace, queries,
                   batch>>

NextBatch ==
    \/ \E kinds \in BatchTexts, max_concurrent \in MaxConcurrentArgs :
          EmbedBatch([i \in DOMAIN kinds |->
                         IF kinds[i] = "blank" THEN Text(1, TRUE) ELSE Text(i, FALSE)],
                     max_concurrent)
    \/ \E q \in 1..MaxTexts, o \in {"ok", "conn_error"} : TaskTagsAnswer(q, o)
    \/ \E q \in 1..MaxTexts, o \in {"ok", "http5xx", "http4xx"} : TaskPostAnswer(q, o)
    \/ \E q \in 1..MaxTexts : TaskBackoffOver(q)

InitBatch ==
    /\ InitServices
    /\ InitHarness
    /\ fast_mode = FALSE
    /\ use_gemini = FALSE
    /\ stored = <<>>

SpecBatch == InitBatch /\ [][NextBatch]_vars

(***************************************************************************)
(* IndexingService.index_all_documents.                                    *)
(*                                                                         *)
(* A csv file is [n, first, last]: its number of rows and the kind of its  *)
(* first and of its last row.  A row of kind "empty" has no content and    *)
(* is skipped by the parser; the other kinds are what                      *)
(* TextProcessor.clean_text does with the content: "ok" leaves text,       *)
(* "blank" leaves none (content such as "[]"), "raises" is an injected     *)
(* text processor that raises on it.  The rows between are "ok".  File     *)
(* names are taken not to contain one another.                             *)
(*                                                                         *)
(* A loaded document is [id, source_file, row, document_name, article,     *)
(* content, cleaning], with lengths for its texts.                         *)
(***************************************************************************)
CleaningKinds == {"ok", "blank", "raises"}

CsvFiles ==
    {[n |-> 0, first |-> "ok", last |-> "ok"]}
    \cup {[n |-> n, first |-> f, last |-> "ok"] :
              n \in {1, 3}, f \in CleaningKinds \cup {"empty"}}
    \cup {[n |-> n, first |-> f, last |-> l] :
              n \in {2, BATCH_SIZE + 1}, f \in CleaningKinds, l \in CleaningKinds}

(* The data directory: missing, without csv files, with one file, with two *)
(* small files.                                                            *)
Directories ==
    {[exists |-> FALSE, files |-> <<>>], [exists |-> TRUE, files |-> <<>>]}
    \cup {[exists |-> TRUE, files |-> <<f>>] : f \in CsvFiles}
    \cup {[exists |-> TRUE, files |-> <<f, g>>] :
              f \in {x \in CsvFiles : x.n <= 1}, g \in {x \in CsvFiles : x.n <= 1}}

(* CSVParser.parse_csv_file: one document per row with content,            *)
(* source_file the file.                                                   *)
parse_csv_file(files, k) ==
    LET HasContent(doc) == doc.cleaning # "empty"
    IN  SelectSeq([r \in 1..files[k].n |->
                      [id |-> 0, source_file |-> k, row |-> r, document_name |-> 12,
                       article |-> 9, content |-> 100 * k + 20 + r,
                       cleaning |-> IF r = 1 THEN files[k].first
                                    ELSE IF r = files[k].n THEN files[k].last ELSE "ok"]],
                  HasContent)

(* DataService.load_csv_files: the documents of every csv file of the      *)
(* directory, each with a fresh uuid; `made` ids have been given before.   *)
load_csv_files(files, made) ==
    LET RECURSIVE From(_)
        From(k) == IF k > Len(files) THEN <<>>
                   ELSE parse_csv_file(files, k) \o From(k + 1)
        parsed == From(1)
    IN  [j \in DOMAIN parsed |-> [parsed[j] EXCEPT !.id = made + j]]

(* The loop of _load_all_documents from file k on: load everything, keep   *)
(* the documents of file k or, when there are none, all of them; count the *)
(* file; call the callback, whose exception is logged as the file's.       *)
RECURSIVE LoadFrom(_, _, _, _, _, _)
LoadFrom(files, k, callback, cb, progress, all_documents) ==
    IF k > Len(files) THEN [progress |-> progress, documents |-> all_documents]
    ELSE LET documents == load_csv_files(files, (k - 1) * Len(load_csv_files(files, 0)))
             OfFile(doc) == doc.source_file = k
             own == SelectSeq(documents, OfFile)
             file_documents == IF own = <<>> THEN documents ELSE own
             counted == [progress EXCEPT !.processed_files = @ + 1]
             after == IF callback /\ cb[k] = "raises"
                      THEN [counted EXCEPT !.errors = Append(@, "Failed to load")]
                      ELSE counted
         IN  LoadFrom(files, k + 1, callback, cb, after, all_documents \o file_documents)

(* IndexingService._load_all_documents                                     *)
_load_all_documents(directory, callback, cb, progress) ==
    IF ~directory.exists
    THEN [kind |-> "raised", progress |-> progress, documents |-> <<>>]
    ELSE IF directory.files = <<>>
    THEN [kind |-> "result", progress |-> progress, documents |-> <<>>]
    ELSE LET loaded == LoadFrom(directory.files, 1, callback, cb,
                                [progress EXCEPT !.total_files = Len(directory.files)],
                                <<>>)
         IN  [kind |-> "result", progress |-> loaded.progress,
              documents |-> loaded.documents]

(* TextProcessor.clean_text on the content of a document                   *)
clean_text(doc) == IF doc.cleaning = "blank" THEN 0 ELSE doc.content

(* The cleaning loop of a batch: the documents cleaned, the progress with  *)
(* processed_documents, failed_documents and errors counted.               *)
CleanBatch(batch_documents, progress) ==
    LET CleaningRaises(doc) == doc.cleaning = "raises"
        CleaningReturns(doc) == doc.cleaning # "raises"
        returned == SelectSeq(batch_documents, CleaningReturns)
        raised == SelectSeq(batch_documents, CleaningRaises)
    IN  [processed_documents |->
             [j \in DOMAIN returned |-> [returned[j] EXCEPT !.content = clean_text(returned[j])]],
         progress |->
             [progress EXCEPT
                 !.processed_documents = @ + Len(returned),
                 !.failed_documents = @ + Len(raised),
                 !.errors = @ \o [j \in DOMAIN raised |-> "Failed to process document"]]]

BatchOf(documents, i) == SubSeq(documents, i + 1, Min(i + BATCH_SIZE, Len(documents)))

(* IndexingService._get_indexing_results; success_rate is                  *)
(* round(indexed / total * 100, 2) in hundredths.                          *)
_get_indexing_results(progress) ==
    [status |-> progress.status,
     statistics |-> [total_files |-> progress.total_files,
                     processed_files |-> progress.processed_files,
                     total_documents |-> progress.total_documents,
                     processed_documents |-> progress.processed_documents,
                     indexed_documents |-> progress.indexed_documents,
                     failed_documents |-> progress.failed_documents,
                     success_rate |->
                         IF progress.total_documents > 0
                         THEN RoundHalfEven(progress.indexed_documents * 10000,
                                            progress.total_documents)
                         ELSE 0,
                     duration_seconds |->
                         IF progress.start_time # None /\ progress.end_time # None
                         THEN Some("end - start") ELSE None],
     timestamps |-> [start_time |-> progress.start_time, end_time |-> progress.end_time],
     errors |-> SubSeq(progress.errors, 1, Min(MAX_REPORTED_ERRORS, Len(progress.errors)))]

(* The loop of _process_and_index_documents from the batch at i up to its  *)
(* next await: a batch with a cleaned document stops at embed_batch, a     *)
(* batch without is passed over, and after the last batch the run is at    *)
(* its end.                                                                *)
RECURSIVE NextBatchFrom(_, _, _)
NextBatchFrom(documents, i, progress) ==
    IF i >= Len(documents)
    THEN [pc |-> "end", i |-> i, progress |-> progress, processed_documents |-> <<>>]
    ELSE LET cleaned == CleanBatch(BatchOf(documents, i), progress)
         IN  IF cleaned.processed_documents = <<>>
             THEN NextBatchFrom(documents, i + BATCH_SIZE, cleaned.progress)
             ELSE [pc |-> "embed_batch", i |-> i, progress |-> cleaned.progress,
                   processed_documents |-> cleaned.processed_documents]

(* The three ends of index_all_documents: the summary of a completed run,  *)
(* and IndexingServiceError raised from the except clause after the status *)
(* is set to "failed".                                                     *)
RunCompleted(progress) ==
    LET final == [progress EXCEPT !.status = "completed", !.end_time = Some("now")]
    IN  [progress |-> final, pc |-> "returned",
         ret |-> [kind |-> "result", summary |-> _get_indexing_results(final)]]

RunFailed(progress) ==
    [progress |-> [progress EXCEPT !.status = "failed", !.end_time = Some("now"),
                                   !.errors = Append(@, "str(e)")],
     pc |-> "raised",
     ret |-> [kind |-> "raised", error |-> "IndexingServiceError"]]

(* The run of caller r goes on from the batch at i: to the embed_batch     *)
(* call of the next batch with a cleaned document, or to its end.  fault   *)
(* is whether a service or a callback failed in the step, called the       *)
(* number of times the step called the progress callback.                  *)
GoOnFrom(r, i, progress, fault, called) ==
    LET next == NextBatchFrom(run[r].documents, i, progress)
    IN  IF next.pc = "end"
        THEN LET end == RunCompleted(next.progress)
             IN  /\ indexing_progress' = end.progress
                 /\ run' = [run EXCEPT ![r].pc = end.pc, ![r].i = next.i,
                                       ![r].processed_documents = <<>>,
                                       ![r].faults = @ \/ fault,
                                       ![r].batch_callbacks = @ + called,
                                       ![r].ret = end.ret]
        ELSE /\ indexing_progress' = next.progress
             /\ run' = [run EXCEPT ![r].pc = "embed_batch", ![r].i = next.i,
                                   ![r].faults = @ \/ fault,
                                   ![r].batch_callbacks = @ + called,
                                   ![r].processed_documents = next.processed_documents]

(* DataService.reset_collection: what it returns and the store after it.   *)
(* delete_collection initializes when there is no client, which raises on  *)
(* "client_error"; client.delete_collection raising ("delete_error") is    *)
(* caught and makes delete_collection return False, which reset_collection *)
(* does not look at; initialize then opens the collection that exists or   *)
(* creates one, or raises on "client_error".  An exception of either call  *)
(* is swallowed and False returned.                                        *)
reset_collection(so, store) ==
    IF so = "client_error"
    THEN [ret |-> FALSE,
          store |-> IF store.client = "none" THEN store
                    ELSE [store EXCEPT !.stored = <<>>, !.collection = "none"]]
    ELSE [ret |-> TRUE,
          store |-> [client |-> "open", collection |-> "open",
                     stored |-> IF so = "delete_error" THEN store.stored ELSE <<>>]]

(* embed_batch as index_all_documents sees it: one vector for each         *)
(* non-blank text, in order, or EmbeddingServiceError.                     *)
embed_batch(texts, outcome) ==
    LET valid == valid_texts(texts)
    IN  IF valid = <<>> \/ outcome # "ok"
        THEN [kind |-> "raised", error |-> "EmbeddingServiceError"]
        ELSE [kind |-> "result",
              embeddings |-> [j \in DOMAIN valid |->
                                 EmbeddingOf(_truncate_text(valid[j].text))]]

(* index_documents that pairs the documents with the vectors it is given,  *)
(* as far as they go, whatever their numbers.                              *)
index_documents_unchecked(documents, embeddings, so, store) ==
    LET count == Min(Len(documents), Len(embeddings))
    IN  [kind |-> "True",
         store |-> [client |-> "open", collection |-> "open",
                    stored |-> store.stored \o
                        [j \in 1..count |->
                            Doc(documents[j].id, embeddings[j], documents[j].document_name,
                                documents[j].article, documents[j].content)]]]

(* index_documents that gives the documents the vectors in reverse order.  *)
index_documents_reversed(documents, embeddings, so, store) ==
    IF Len(documents) # Len(embeddings)
    THEN [kind |-> "raised", error |-> "ValueError", store |-> store]
    ELSE [kind |-> "True",
          store |-> [client |-> "open", collection |-> "open",
                     stored |-> store.stored \o
                         [j \in DOMAIN documents |->
                             Doc(documents[j].id, embeddings[Len(embeddings) + 1 - j],
                                 documents[j].document_name, documents[j].article,
                                 documents[j].content)]]]

(* DataService.index_documents: what it returns or raises, and the store   *)
(* after it.  initialize runs when there is no collection handle; the      *)
(* numbers of documents and vectors are compared before anything is        *)
(* written.                                                                *)
index_documents(documents, embeddings, so, store) ==
    LET initialized == IF store.collection = "none"
                       THEN [store EXCEPT !.client = "open", !.collection = "open"]
                       ELSE store
    IN  IF store.collection = "none" /\ so = "client_error"
        THEN [kind |-> "raised", error |-> "str(e)", store |-> store]
        ELSE IF Len(documents) # Len(embeddings)
        THEN [kind |-> "raised", error |-> "ValueError", store |-> initialized]
        ELSE IF so = "add_error"
        THEN [kind |-> "False", store |-> initialized]
        ELSE [kind |-> "True",
              store |-> [initialized EXCEPT !.stored = @ \o
                            [j \in DOMAIN documents |->
                                Doc(documents[j].id, embeddings[j],
                                    documents[j].document_name, documents[j].article,
                                    documents[j].content)]]]

(* index_all_documents(data_directory, reset_collection, progress_callback) *)
(* called by r, up to its first embed_batch call, or to its end when there *)
(* is none: nothing before that call suspends.  The record of the service  *)
(* is replaced by a new one; the documents get fresh ids.                  *)
IndexAllDocuments(r, directory, reset, callback, ro, cb) ==
    /\ ~reset => ro = "ok"
    /\ LET running == [IdleProgress EXCEPT !.status = "running", !.start_time = Some("now")]
           store == [client |-> client, collection |-> collection, stored |-> stored]
           returned == IF reset THEN Some(reset_collection(ro, store).ret) ELSE None
           after == IF reset THEN reset_collection(ro, store).store ELSE store
           loaded == _load_all_documents(directory, callback, cb, running)
           documents == [j \in DOMAIN loaded.documents |->
                            [loaded.documents[j] EXCEPT
                                !.id = @ + (IF r = "A" THEN 0 ELSE 500)]]
           frame == [pc |-> "loading", directory |-> directory, reset_collection |-> reset,
                     progress_callback |-> callback, documents |-> documents,
                     i |-> 0, processed_documents |-> <<>>,
                     faults |-> ro # "ok" \/ (callback /\ \E k \in DOMAIN cb : cb[k] # "ok"),
                     file_callbacks |-> IF callback /\ directory.exists
                                        THEN Len(directory.files) ELSE 0,
                     batch_callbacks |-> 0, reset_returned |-> returned,
                     ret |-> NoRet]
       IN  /\ client' = after.client
           /\ collection' = after.collection
           /\ stored' = after.stored
           /\ IF loaded.kind = "raised"
              THEN LET end == RunFailed(loaded.progress)
                   IN  /\ indexing_progress' = end.progress
                       /\ run' = [run EXCEPT ![r] = [frame EXCEPT !.pc = end.pc,
                                                                  !.ret = end.ret]]
              ELSE IF documents = <<>>
              THEN LET end == RunCompleted(loaded.progress)
                   IN  /\ indexing_progress' = end.progress
                       /\ run' = [run EXCEPT ![r] = [frame EXCEPT !.pc = end.pc,
                                                                  !.ret = end.ret]]
              ELSE LET counted == [loaded.progress EXCEPT
                                      !.total_documents = Len(documents)]
                       next == NextBatchFrom(documents, 0, counted)
                   IN  IF next.pc = "end"
                       THEN LET end == RunCompleted(next.progress)
                            IN  /\ indexing_progress' = end.progress
                                /\ run' = [run EXCEPT ![r] =
                                              [frame EXCEPT !.pc = end.pc, !.i = next.i,
                                                            !.ret = end.ret]]
                       ELSE /\ indexing_progress' = next.progress
                            /\ run' = [run EXCEPT ![r] =
                                          [frame EXCEPT
                                              !.pc = "embed_batch", !.i = next.i,
                                              !.processed_documents =
                                                  next.processed_documents]]
    /\ UNCHANGED <<fast_mode, use_gemini, harness, direct, batching, validation, gateways>>
    /\ UNCHANGED <<emb_verified, llm_verified, metrics, asked, pc,
                   args, retry_count, search_results, context, ret, trace, queries>>

(* embed_batch is back to r with outcome eo: the batch is committed to the *)
(* store (so), the progress callback, if there is one, is called with a    *)
(* copy of the record (co is what it does), and the run sleeps             *)
(* or, where the code says continue, goes on with the next batch.  Every   *)
(* count goes to the record the service holds now.                         *)
EmbedBatchReturned(r, eo, so, co) ==
    /\ run[r].pc = "embed_batch"
    /\ LET processed_documents == run[r].processed_documents
           count == Len(processed_documents)
           batch_documents == BatchOf(run[r].documents, run[r].i)
           texts == [j \in DOMAIN processed_documents |->
                        Text(processed_documents[j].content,
                             processed_documents[j].content = 0)]
           embedded == embed_batch(texts, eo)
           store == [client |-> client, collection |-> collection, stored |-> stored]
       IN  /\ valid_texts(texts) # <<>> => emb_client' = "open"
           /\ valid_texts(texts) = <<>> => emb_client' = emb_client
           /\ emb_verified' = (emb_verified \/
                                  (valid_texts(texts) # <<>> /\ eo # "verify_error"))
           /\ IF embedded.kind = "raised"
              THEN /\ so = "ok" /\ co = "ok"
                   /\ GoOnFrom(r, run[r].i + BATCH_SIZE,
                               [indexing_progress EXCEPT
                                   !.errors = Append(@, "Failed to generate embeddings"),
                                   !.failed_documents = @ + count],
                               eo # "ok", 0)
                   /\ UNCHANGED <<client, collection, stored>>
              ELSE LET committed == index_documents(processed_documents,
                                                    embedded.embeddings, so, store)
                       counted ==
                           IF committed.kind = "True"
                           THEN [indexing_progress EXCEPT !.indexed_documents = @ + count]
                           ELSE [indexing_progress EXCEPT
                                    !.errors = Append(@,
                                        IF committed.kind = "False"
                                        THEN "Failed to index batch"
                                        ELSE "Failed to index batch: " \o committed.error),
                                    !.failed_documents = @ + count]
                   IN  /\ so = "client_error" => collection = "none"
                       /\ client' = committed.store.client
                       /\ collection' = committed.store.collection
                       /\ stored' = committed.store.stored
                       /\ ~run[r].progress_callback => co = "ok"
                       /\ IF co = "raises"
                          THEN GoOnFrom(r, run[r].i + BATCH_SIZE,
                                        [counted EXCEPT
                                            !.errors = Append(@, "Failed to process batch"),
                                            !.failed_documents = @ + Len(batch_documents)],
                                        TRUE, 1)
                          ELSE /\ indexing_progress' = counted
                               /\ run' = [run EXCEPT
                                             ![r].pc = "sleep",
                                             ![r].faults = @ \/ so # "ok",
                                             ![r].batch_callbacks =
                                                 @ + (IF run[r].progress_callback
                                                      THEN 1 ELSE 0)]
    /\ UNCHANGED <<fast_mode, use_gemini, harness, direct, batching, validation>>
    /\ UNCHANGED <<llm_verified, metrics, asked, pc, emb_model, llm_client,
                   args, retry_count, search_results, context, ret, trace, queries>>

(* asyncio.sleep(0.1) of r between two batches is over.                    *)
BatchSleepOver(r) ==
    /\ run[r].pc = "sleep"
    /\ GoOnFrom(r, run[r].i + BATCH_SIZE, indexing_progress, FALSE, 0)
    /\ UNCHANGED <<shared, harness, direct, batching, validation, gateways>>
    /\ UNCHANGED <<emb_verified, llm_verified, client, collection, metrics, asked, pc,
                   args, retry_count, search_results, context, ret, trace, queries>>

(* One run, by one caller, with every input.                               *)
NextIndex ==
    \/ \E directory \in Directories, reset \in BOOLEAN, callback \in BOOLEAN,
          ro \in {"ok", "client_error", "delete_error"} :
          \E cb \in [1..Len(directory.files) -> {"ok", "raises"}] :
              /\ run["A"].pc = "idle"
              /\ IndexAllDocuments("A", directory, reset, callback, ro, cb)
    \/ \E eo \in {"ok", "verify_error", "post_error"},
          so \in {"ok", "client_error", "add_error"}, co \in {"ok", "raises"} :
          EmbedBatchReturned("A", eo, so, co)
    \/ BatchSleepOver("A")

(* The store an indexing run finds: never opened or open, empty or with a  *)
(* document of an earlier run.                                             *)
InitIndex ==
    /\ fast_mode = FALSE
    /\ use_gemini = FALSE
    /\ stored \in {<<>>, <<Doc(1000, 25, 12, 9, 25)>>}
    /\ \/ client = "none" /\ collection = "none"
       \/ client = "open" /\ collection = "open"
    /\ InitGateways
    /\ InitCalls
    /\ InitHarness
    /\ InitOthers

SpecIndex == InitIndex /\ [][NextIndex]_vars

(* Two callers of the one service, as two POST /reload-data requests are:  *)
(* each makes one run, without a callback, on a directory that is missing  *)
(* or has one file of well-formed rows; a caller may start while the       *)
(* other is suspended in embed_batch or in the sleep between batches.      *)
NextIndexConc ==
    \/ \E r \in Runs, reset \in BOOLEAN,
          directory \in {d \in Directories :
                            /\ Len(d.files) <= 1
                            /\ \A k \in DOMAIN d.files : d.files[k].n <= 3
                            /\ \A k \in DOMAIN d.files :
                                  d.files[k].first = "ok" /\ d.files[k].last = "ok"} :
          /\ run[r].pc = "idle"
          /\ IndexAllDocuments(r, directory, reset, FALSE, "ok",
                               [k \in DOMAIN directory.files |-> "ok"])
    \/ \E r \in Runs, eo \in {"ok", "post_error"}, so \in {"ok", "add_error"} :
          EmbedBatchReturned(r, eo, so, "ok")
    \/ \E r \in Runs : BatchSleepOver(r)

SpecIndexConc == InitIndex /\ [][NextIndexConc]_vars

(***************************************************************************)
(* RAGService._update_performance_metrics on its own: argResults is the    *)
(* list of the performance dicts it was given, one for each query that     *)
(* completed.                                                              *)
(***************************************************************************)
UpdatePerformanceMetrics(performance) ==
    /\ Len(argResults) < MaxQueries
    /\ argResults' = Append(argResults, performance)
    /\ metrics' = _update_performance_metrics(metrics, performance)
    /\ UNCHANGED <<shared, others, gateways, validation, argQuery, retValue>>
    /\ UNCHANGED <<emb_verified, llm_verified, client, collection, asked, pc,
                   args, retry_count, search_results, context, ret, trace, queries>>

NextMetrics ==
    \E embedding \in 1..2, search \in 1..2, generation \in 1..2 :
        UpdatePerformanceMetrics(
            Performance(embedding + search + generation, embedding, search, generation))

InitMetrics ==
    /\ InitServices
    /\ InitHarness
    /\ fast_mode = FALSE
    /\ use_gemini = FALSE
    /\ stored = <<>>

SpecMetrics == InitMetrics /\ [][NextMetrics]_vars

(***************************************************************************)
(* Properties.                                                             *)
(***************************************************************************)
Has(seq, e) == \E i \in DOMAIN seq : seq[i] = e
Count(seq, e) == Cardinality({i \in DOMAIN seq : seq[i] = e})

TypeOK ==
    /\ fast_mode \in BOOLEAN /\ use_gemini \in BOOLEAN
    /\ emb_verified \in BOOLEAN /\ llm_verified \in BOOLEAN
    /\ client \in {"none", "open"} /\ collection \in {"none", "open"}
    /\ metrics.total_queries \in 0..MaxAsks
    /\ asked \in 0..MaxAsks
    /\ \A c \in Calls :
          /\ pc[c] \in {"idle", "embed_verify", "embed_post", "embed_sleep", "llm_verify",
                        "llm_post", "llm_sleep", "returned", "raised"}
          /\ retry_count[c] \in 0..OLLAMA_MAX_RETRIES
          /\ ret[c].kind \in {"none", "result", "RAGServiceError"}

(* C1: a Query Result is returned only if the embedding, the store query   *)
(* and the generation all succeeded; a stage that fails, the store's query *)
(* included, makes the call raise RAGServiceError and return nothing.      *)
C1_AllOrNothing ==
    \A c \in Calls :
        /\ pc[c] = "returned" => \A i \in DOMAIN queries[c] : queries[c][i].ok
        /\ (\E i \in DOMAIN queries[c] : ~queries[c][i].ok) =>
              /\ pc[c] = "raised"
              /\ ret[c].kind = "RAGServiceError"

(* C2: when embedding the question fails, process_question raises          *)
(* RAGServiceError having made no store query and no generation call.      *)
C2_EmbedFailureStopsCall ==
    \A c \in Calls :
        Has(trace[c], Ev("embed", "raise")) =>
            /\ pc[c] = "raised"
            /\ ret[c] = RAGServiceError("embed")
            /\ queries[c] = <<>>
            /\ ~Has(trace[c], Ev("search", "begin"))
            /\ ~Has(trace[c], Ev("generate", "begin"))

C2_Witness ==
    \E c \in Calls :
        /\ pc[c] = "raised"
        /\ Has(trace[c], Ev("embed", "raise"))
        /\ retry_count[c] = OLLAMA_MAX_RETRIES

(* C3: within one call the stages run in the order embed, store query,     *)
(* context assembly, generate, confidence, metrics update, each at most    *)
(* once and each only after the previous one has returned, whatever other  *)
(* calls are in flight.                                                    *)
StageOrder == <<"embed", "search", "context", "generate", "confidence", "metrics">>

CanonicalTrace ==
    [k \in 1..(2 * Len(StageOrder)) |->
        Ev(StageOrder[(k + 1) \div 2], IF k % 2 = 1 THEN "begin" ELSE "end")]

C3_StagesInOrder ==
    \A c \in Calls :
        \E k \in 0..Len(CanonicalTrace) :
            \/ trace[c] = SubSeq(CanonicalTrace, 1, k)
            \/ /\ k >= 1
               /\ CanonicalTrace[k][2] = "begin"
               /\ trace[c] = Append(SubSeq(CanonicalTrace, 1, k),
                                    Ev(CanonicalTrace[k][1], "raise"))

C3_Witness ==
    \E c, d \in Calls :
        /\ c # d
        /\ pc[c] = "llm_sleep"
        /\ pc[d] = "embed_sleep"

C5_CallerValuesApplied ==
    \A c \in Calls : \A i \in DOMAIN queries[c] :
        /\ queries[c][i].threshold =
              IF IsNone(args[c].similarity_threshold) THEN SIMILARITY_THRESHOLD
              ELSE Val(args[c].similarity_threshold)
        /\ queries[c][i].n_results =
              IF IsNone(args[c].max_sources) THEN ConfiguredMaxSources(fast_mode)
              ELSE Val(args[c].max_sources)

(* C6: the context _prepare_context returns is never longer than the       *)
(* character budget, 1500 in normal mode and 800 in fast mode.             *)
C6_ContextWithinBudget ==
    retValue # None => ContextLen(Val(retValue)) <= ContextBudget(fast_mode)

(* C7: the sources returned by process_question are one entry per          *)
(* retrieved result, in retrieval order with ranks 1..n, whatever fitted   *)
(* into the context; metadata.sources_found is their number.               *)
C7_SourcesAreAllResults ==
    \A c \in Calls :
        pc[c] = "returned" =>
            /\ Len(ret[c].sources) = Len(search_results[c])
            /\ \A i \in DOMAIN ret[c].sources :
                  /\ ret[c].sources[i].id = search_results[c][i].id
                  /\ ret[c].sources[i].content = search_results[c][i].content
                  /\ ret[c].sources[i].rank = i
            /\ ret[c].metadata.sources_found = Len(ret[c].sources)

(* Three results were retrieved and the third did not fit the context.     *)
C7_Witness ==
    \E c \in Calls :
        /\ pc[c] = "returned"
        /\ Len(search_results[c]) = 3
        /\ Len(context[c]) = 2
        /\ Len(ret[c].sources) = 3

(* C8: for relevance scores in [0, 1] the confidence lies in [0, 100] and  *)
(* never decreases when the average of the top-3 scores increases.         *)
C8_ConfidenceBoundedMonotone ==
    /\ \A k \in 1..2 :
          retValue[k] # None => Val(retValue[k]) >= 0 /\ Val(retValue[k]) <= 1000
    /\ (/\ retValue[1] # None /\ retValue[2] # None
        /\ argResults[1] # <<>> /\ argResults[2] # <<>>
        /\ FLeq(AvgTop(argResults[1]), AvgTop(argResults[2])))
       => Val(retValue[1]) <= Val(retValue[2])

(* A lower average with a lower confidence, and a higher one at the cap.   *)
C8_Witness ==
    /\ retValue[1] # None /\ retValue[2] # None
    /\ argResults[1] # <<>> /\ argResults[2] # <<>>
    /\ ~FGeq(AvgTop(argResults[1]), AvgTop(argResults[2]))
    /\ Val(retValue[1]) > 0
    /\ Val(retValue[1]) < Val(retValue[2])
    /\ Val(retValue[2]) = 1000
    /\ FGeq(AvgTop(argResults[2]), Frac(9, 10))

(* C9: the confidence is 0 when there are no results and the fallback 50   *)
(* when results exist but none of them carries a relevance score.          *)
C9_FallbackConfidence ==
    \A k \in 1..2 :
        retValue[k] # None =>
            /\ argResults[k] = <<>> => Val(retValue[k]) = 0
            /\ (/\ argResults[k] # <<>>
                /\ \A i \in DOMAIN argResults[k] : IsNone(argResults[k][i].relevance_score))
               => Val(retValue[k]) = DEFAULT_CONFIDENCE

(* C10: when validation is requested and a validator is configured,        *)
(* process_question calls the validator exactly once, after generation,    *)
(* and metadata.validated and validation_score carry its outcome.          *)
C10_ValidatorCalledOnce ==
    \A c \in Calls :
        (/\ pc[c] = "returned"
         /\ args[c].validate_response = Some(TRUE)
         /\ use_gemini)
        => /\ Count(trace[c], Ev("validate", "begin")) = 1
           /\ \E i, j \in DOMAIN trace[c] :
                 /\ i < j
                 /\ trace[c][i] = Ev("generate", "end")
                 /\ trace[c][j] = Ev("validate", "begin")

(* C11: validate_with_gemini never raises: without a configured validator  *)
(* it returns validated false, score null and the "not available" report;  *)
(* when the validator call fails it returns validated false with the error *)
(* captured; in neither case does process_question fail, and the metadata  *)
(* it returns has validated false.                                         *)
C11_ValidationNeverFails ==
    \A c \in Calls :
        /\ validation[c] # None =>
              LET v == Val(validation[c]).result
                  o == Val(validation[c]).outcome
              IN  /\ v.kind = "result"
                  /\ ~use_gemini =>
                        /\ v.validated = FALSE
                        /\ v.score = None
                        /\ v.feedback = Some("Gemini validation not available")
                  /\ (use_gemini /\ o = "error") =>
                        /\ v.validated = FALSE
                        /\ v.score = None
                        /\ v.error # None
                  /\ pc[c] = "returned"
        /\ ~Has(trace[c], Ev("validate", "raise"))
        /\ pc[c] = "returned" => ret[c].metadata.validated = FALSE

(* Validation was requested, a validator is configured and its call        *)
(* failed: the answer stands.                                              *)
C11_Witness ==
    \E c \in Calls :
        /\ pc[c] = "returned"
        /\ args[c].validate_response = Some(TRUE)
        /\ use_gemini
        /\ validation[c] # None
        /\ Val(validation[c]).outcome = "error"
        /\ Val(validation[c]).result.error # None

Finished(r) == r.pc \in {"returned", "raised"}

RECURSIVE LeadingRetryable(_)
LeadingRetryable(answers) ==
    IF answers = <<>> THEN 0
    ELSE IF Head(answers) \in {"conn_error", "timeout", "http5xx"}
    THEN 1 + LeadingRetryable(Tail(answers))
    ELSE 0

(* C12: an embedding request on a verified gateway makes                   *)
(* 1 + min(max_retries, leading retryable answers) POSTs, where retryable  *)
(* is a connection error, a timeout or a 5xx; its k-th retry follows a     *)
(* delay of retry_delay * k; a 4xx ends it on that attempt with no retry   *)
(* and no delay.                                                           *)
C12_AttemptsAndDelays ==
    (/\ Finished(emb_req)
     /\ emb_req.cause # "blank"
     /\ emb_req.before.verified)
    => LET k == LeadingRetryable(endpoint.posts)
       IN  /\ emb_req.gets = 0
           /\ emb_req.posts = 1 + Min(OLLAMA_MAX_RETRIES, k)
           /\ emb_req.delays = [j \in 1..(emb_req.posts - 1) |-> OLLAMA_RETRY_DELAY * j]
           /\ endpoint.posts[emb_req.posts] = "http4xx" =>
                 /\ emb_req.pc = "raised"
                 /\ emb_req.cause = "http4xx"
                 /\ Len(emb_req.delays) = emb_req.posts - 1

(* A connection error, a timeout and a 5xx were each retried, after 1, 2   *)
(* and 3 seconds, and the fourth attempt ended on a 4xx.                   *)
C12_Witness ==
    /\ Finished(emb_req)
    /\ emb_req.before.verified
    /\ endpoint.posts = <<"conn_error", "timeout", "http5xx", "http4xx">>
    /\ emb_req.posts = 4
    /\ emb_req.delays = <<1, 2, 3>>
    /\ emb_req.pc = "raised"

(* C13: a connection error or a 5xx of the remote endpoint during an embed *)
(* or generate call is surfaced to the caller only once max_retries        *)
(* retries have been made, in every gateway state, the first use of an     *)
(* unverified gateway included.                                            *)
C13_TransientRetriedBeforeSurfaced ==
    /\ (emb_req.pc = "raised" /\ emb_req.cause \in {"conn_error", "http5xx"})
          => emb_req.retry_count = OLLAMA_MAX_RETRIES
    /\ (llm_req.pc = "raised" /\ llm_req.cause \in {"conn_error", "http5xx"})
          => llm_req.retry_count = OLLAMA_MAX_RETRIES

(* C14: against the same endpoint answers (success, connection error,      *)
(* timeout, 4xx, 5xx, malformed or empty payload) _make_ollama_request     *)
(* makes as many attempts, sleeps the same delays and ends in the same     *)
(* outcome class as _make_embedding_request.                               *)
C14_SameRetryPolicy ==
    (/\ Finished(emb_req)
     /\ Finished(llm_req)
     /\ emb_req.cause # "blank"
     /\ emb_req.gets = llm_req.gets)
    => /\ llm_req.posts = emb_req.posts
       /\ llm_req.delays = emb_req.delays
       /\ llm_req.pc = emb_req.pc

(* Both gateways retried a timeout and a 5xx and failed on an empty        *)
(* payload at the third attempt.                                           *)
C14_Witness ==
    /\ Finished(emb_req)
    /\ Finished(llm_req)
    /\ endpoint.posts = <<"timeout", "http5xx", "empty">>
    /\ emb_req.posts = 3
    /\ llm_req.posts = 3
    /\ llm_req.delays = <<1, 2>>
    /\ llm_req.pc = "raised"

(* C15: embed_text on an empty or whitespace-only text fails with an       *)
(* error, sends neither a verification nor an embedding request, and       *)
(* leaves the gateway's client, model and verified flag as they were.      *)
C15_BlankTextSendsNothing ==
    (emb_req.pc # "idle" /\ TextIsBlank(emb_req.text))
    => /\ emb_req.pc = "raised"
       /\ emb_req.gets = 0
       /\ emb_req.posts = 0
       /\ emb_client = emb_req.before.client
       /\ emb_model = emb_req.before.model
       /\ emb_verified = emb_req.before.verified

InFlight == Cardinality({q \in DOMAIN task : task[q].pc \in {"verify", "post", "sleep"}})

AllNonBlank(texts) == \A i \in DOMAIN texts : ~TextIsBlank(texts[i])

(* C16: for every list of non-blank texts and every completion order of    *)
(* its requests, a successful embed_batch returns as many vectors as       *)
(* texts, the i-th being the one produced for texts[i].                    *)
C16_BatchOrderPreserved ==
    (batch.pc = "returned" /\ AllNonBlank(batch.texts))
    => /\ Len(batch.ret.vectors) = Len(batch.texts)
       /\ \A i \in DOMAIN batch.texts :
             batch.ret.vectors[i] = EmbeddingOf(batch.texts[i])

(* Three texts or more, all embedded, a later one finished before an       *)
(* earlier one.                                                            *)
C16_Witness ==
    /\ batch.pc = "returned"
    /\ AllNonBlank(batch.texts)
    /\ Len(batch.texts) >= 3
    /\ batch.out_of_order

(* C17: during an embed_batch call the requests of the call in flight,     *)
(* their model verification and their back-off included, never exceed      *)
(* max_concurrent, 5 when the caller gives none (None or 0).               *)
C17_BoundedConcurrency ==
    batch.pc = "gathering" =>
        InFlight <= (IF batch.max_concurrent \in {None, Some(0)} THEN 5
                     ELSE Val(batch.max_concurrent))

(* Two slots, both taken, one by a task in back-off and one by a task      *)
(* verifying the model, while another task waits.                          *)
C17_Witness ==
    /\ batch.pc = "gathering"
    /\ batch.max_concurrent = Some(2)
    /\ InFlight = 2
    /\ \E q \in DOMAIN task : task[q].pc = "waiting"
    /\ \E q \in DOMAIN task : task[q].pc = "sleep"
    /\ \E q \in DOMAIN task : task[q].pc = "verify"

(* C18: a text that fails does not cancel or skip the others: when         *)
(* embed_batch ends every non-blank text has been attempted to completion, *)
(* and if any failed it raises one error with the number of failures, at   *)
(* most 3 of them as examples and the number of the others, and returns    *)
(* no vectors.                                                             *)
C18_PartialFailureAggregated ==
    (batch.pc \in {"returned", "raised"} /\ valid_texts(batch.texts) # <<>>)
    => LET failed == {q \in DOMAIN task : task[q].pc = "failed"}
       IN  /\ Len(task) = Len(valid_texts(batch.texts))
           /\ \A q \in DOMAIN task :
                 /\ task[q].pc \in {"done", "failed"}
                 /\ task[q].result # None
           /\ failed = {} <=> batch.pc = "returned"
           /\ failed # {} =>
                 /\ batch.ret.kind = "EmbeddingServiceError"
                 /\ batch.ret.summary.count = Cardinality(failed)
                 /\ Len(batch.ret.summary.examples) = Min(3, Cardinality(failed))
                 /\ \A e \in DOMAIN batch.ret.summary.examples :
                       \E q \in failed : task[q].index = batch.ret.summary.examples[e].index
                 /\ batch.ret.summary.more =
                       (IF Cardinality(failed) > 3 THEN Some(Cardinality(failed) - 3)
                        ELSE None)

(* Four texts failed, a later one before an earlier one had ended.         *)
C18_Witness ==
    /\ batch.pc = "raised"
    /\ batch.out_of_order
    /\ Cardinality({q \in DOMAIN task : task[q].pc = "failed"}) = 4
    /\ batch.ret.summary.count = 4
    /\ Len(batch.ret.summary.examples) = 3
    /\ batch.ret.summary.more = Some(1)

RunEnded(r) == run[r].pc \in {"returned", "raised"}

(* C19: at the end of every indexing run, whatever the cleaning, the       *)
(* embedding, the store commit and the progress callback did,              *)
(* failed_documents + indexed_documents = total_documents.                 *)
C19_CountsAddUp ==
    RunEnded("A") =>
        indexing_progress.failed_documents + indexing_progress.indexed_documents
            = indexing_progress.total_documents

(* C20: index_all_documents always returns a summary and never raises;     *)
(* the status of the summary is "failed" exactly when the run could not    *)
(* proceed at top level, as with a missing directory.                      *)
C20_AlwaysReturnsSummary ==
    RunEnded("A") =>
        /\ run["A"].ret.kind = "result"
        /\ run["A"].ret.summary.status = "failed" <=> ~run["A"].directory.exists

RECURSIVE SumOf(_, _)
SumOf(performances, key) ==
    IF performances = <<>> THEN 0
    ELSE Head(performances)[key] + SumOf(Tail(performances), key)

IsMeanOf(avg, performances, key) ==
    avg[1] * Len(performances) = SumOf(performances, key) * avg[2]

(* C25: after n completed queries total_queries = n and each of            *)
(* avg_response_time, avg_embedding_time, avg_search_time and              *)
(* avg_generation_time is the mean of the total, embedding, search and     *)
(* generation times of the n queries.                                      *)
C25_RunningAveragesAreMeans ==
    argResults # <<>> =>
        /\ metrics.total_queries = Len(argResults)
        /\ IsMeanOf(metrics.avg_response_time, argResults, "total_time")
        /\ IsMeanOf(metrics.avg_embedding_time, argResults, "embedding_time")
        /\ IsMeanOf(metrics.avg_search_time, argResults, "search_time")
        /\ IsMeanOf(metrics.avg_generation_time, argResults, "generation_time")

(* C26: for every interleaving of concurrent calls total_queries grows by  *)
(* one with each call that returns a result and by nothing else, so that   *)
(* it is the number of calls that completed successfully.                  *)
C26_NoMetricsUpdateLost ==
    [][metrics'.total_queries = metrics.total_queries
          + Cardinality({c \in Calls : pc[c] # "returned" /\ pc'[c] = "returned"})]_vars

(* Every caller's call returned after all of them had been in flight       *)
(* together, and each is counted.                                          *)
C26_Witness ==
    /\ \A c \in Calls : pc[c] = "returned"
    /\ metrics.total_queries = NumCalls
    /\ asked = NumCalls

(* C29: on one gateway, whatever the interleaving of the parallel requests *)
(* of an embed_batch, at most one model verification completes             *)
(* successfully (a verification succeeds only while the model is not yet   *)
(* verified) and none is issued after the first success.                   *)
C29_VerifiedAtMostOnce ==
    [][\A q \in DOMAIN task \cap DOMAIN task' :
          /\ (task[q].pc = "verify" /\ task'[q].pc = "post") => ~emb_verified
          /\ (task[q].pc # "verify" /\ task'[q].pc = "verify") => ~emb_verified]_vars

C22_TwoOfThreeIndexed ==
    (/\ RunEnded("A")
     /\ ~run["A"].faults
     /\ \E f \in (CleaningKinds \cup {"empty"}) \ {"ok"} :
           run["A"].directory = [exists |-> TRUE,
                                 files |-> <<[n |-> 3, first |-> f, last |-> "ok"]>>])
        => /\ run["A"].ret.kind = "result"
           /\ run["A"].ret.summary.statistics.total_documents = 3
           /\ run["A"].ret.summary.statistics.indexed_documents = 2
           /\ run["A"].ret.summary.statistics.failed_documents = 1
           /\ Len(run["A"].ret.summary.errors) = 1

(* The batch r waits for has a document that cleaned to nothing: with the  *)
(* embedding succeeding, embed_batch returns fewer vectors than documents. *)
WillMismatch(r) ==
    /\ run[r].pc = "embed_batch"
    /\ \E j \in DOMAIN run[r].processed_documents : run[r].processed_documents[j].content = 0
    /\ \E j \in DOMAIN run[r].processed_documents : run[r].processed_documents[j].content # 0

(* C23: in every reachable state every document in the store has the       *)
(* vector generated from its own cleaned content, which is not blank: no   *)
(* document is committed without a vector or with another document's.      *)
C23_StoredWithOwnEmbedding ==
    \A j \in DOMAIN stored :
        /\ stored[j].content > 0
        /\ stored[j].vec = EmbeddingOf(_truncate_text(Text(stored[j].content, FALSE)))

(* A run has committed the documents of a batch, distinct in content, and  *)
(* a later batch of it failed.                                             *)
C23_Witness ==
    /\ RunEnded("A")
    /\ \E j, k \in DOMAIN stored : stored[j].content # stored[k].content
    /\ indexing_progress.indexed_documents >= 2
    /\ indexing_progress.failed_documents > 0

(* C24: a commit with fewer vectors than documents fails and leaves the    *)
(* store as it was: the step of a run whose batch has a document without   *)
(* a vector writes nothing, indexes nothing and, when the embedding        *)
(* succeeded, records the ValueError of index_documents.                   *)
C24_MismatchWritesNothing ==
    [][\A r \in Runs :
          (WillMismatch(r) /\ run'[r] # run[r]) =>
              /\ stored' = stored
              /\ indexing_progress'.indexed_documents = indexing_progress.indexed_documents
              /\ indexing_progress'.failed_documents >=
                     indexing_progress.failed_documents + Len(run[r].processed_documents)
              /\ (emb_verified' /\ ~run'[r].faults) =>
                     Has(indexing_progress'.errors, "Failed to index batch: ValueError")]_vars

(* index_documents was given the documents of a first batch with one       *)
(* vector fewer and the store was left with the document it had; the       *)
(* second batch of the run was committed after it.                         *)
C24_Witness ==
    /\ Has(indexing_progress.errors, "Failed to index batch: ValueError")
    /\ RunEnded("A")
    /\ ~run["A"].faults
    /\ indexing_progress.failed_documents = BATCH_SIZE
    /\ Len(stored) = 2
    /\ stored[1].id = 1000

(* C21: the status of the run record moves from idle to running, from      *)
(* running to completed or failed, and from these back to running only in  *)
(* a step in which a run starts, and that step leaves a record with no     *)
(* document indexed or failed and no error but the run's own; end_time is  *)
(* null exactly while the status is idle or running.  (A run that starts   *)
(* and ends without suspending passes through running within its step.)    *)
C21_StatusMoves ==
    /\ [](indexing_progress.end_time = None
             <=> indexing_progress.status \in {"idle", "running"})
    /\ [][IF \E r \in Runs : run[r].pc = "idle" /\ run'[r].pc # "idle"
          THEN /\ indexing_progress'.status \in {"running", "completed", "failed"}
               /\ indexing_progress'.indexed_documents = 0
               /\ indexing_progress'.failed_documents = 0
               /\ indexing_progress'.errors \in {<<>>, <<"str(e)">>}
          ELSE \/ indexing_progress'.status = indexing_progress.status
               \/ /\ indexing_progress.status = "running"
                  /\ indexing_progress'.status \in {"completed", "failed"}]_vars

(* C27: the summary returned to each caller counts that run's own          *)
(* documents, and in it indexed_documents + failed_documents is at most    *)
(* total_documents, also when the other run started while this one was     *)
(* suspended.                                                              *)
C27_SummaryOfOwnRun ==
    \A r \in Runs :
        run[r].pc = "returned" =>
            LET statistics == run[r].ret.summary.statistics
            IN  /\ statistics.total_documents = Len(run[r].documents)
                /\ statistics.indexed_documents + statistics.failed_documents
                       <= statistics.total_documents

(* C31: a batch whose embedding or whose commit fails adds the number of   *)
(* its cleaned documents to failed_documents, no more, and nothing to      *)
(* indexed_documents, and the run goes on: it does not raise, and at its   *)
(* end every document of every batch has been through the cleaning.  (The  *)
(* step may go on into the cleaning of the next batch, whose failures are  *)
(* the "Failed to process document" errors it adds.)                       *)
C31_FailedBatchCountedOnce ==
    /\ [][(/\ run["A"].pc = "embed_batch"
           /\ run'["A"] # run["A"]
           /\ indexing_progress'.indexed_documents = indexing_progress.indexed_documents)
          => /\ indexing_progress'.failed_documents =
                    indexing_progress.failed_documents
                    + Len(run["A"].processed_documents)
                    + Count(indexing_progress'.errors, "Failed to process document")
                    - Count(indexing_progress.errors, "Failed to process document")
             /\ run'["A"].pc \in {"embed_batch", "sleep", "returned"}]_vars
    /\ [](run["A"].pc = "returned" =>
             indexing_progress.processed_documents
             + Count(indexing_progress.errors, "Failed to process document")
                 = indexing_progress.total_documents)

(* C32: a run with a progress callback has called it once after each file  *)
(* and, at its end, once after every batch of its documents, whether the   *)
(* batch was indexed or failed.                                            *)
C32_CallbackAfterEveryBatch ==
    (run["A"].pc = "returned" /\ run["A"].progress_callback) =>
        /\ run["A"].file_callbacks = Len(run["A"].directory.files)
        /\ run["A"].batch_callbacks * BATCH_SIZE >= Len(run["A"].documents)
        /\ (run["A"].batch_callbacks - 1) * BATCH_SIZE < Len(run["A"].documents)

(* C33: whenever reset_collection returns True, whatever the delete of the *)
(* collection did, the store has a collection handle and the collection    *)
(* holds no document.                                                      *)
C33_ResetLeavesEmptyCollection ==
    [][(/\ run["A"].pc = "idle"
        /\ run'["A"].pc # "idle"
        /\ run'["A"].reset_returned = Some(TRUE))
       => /\ stored' = <<>>
          /\ collection' = "open"]_vars

(* C34: total_queries and the running averages change only in the step in *)
(* which a call returns its result: a call that raises, at the embedding,  *)
(* the retrieval or the generation, leaves the metrics as they were, as    *)
(* does every step before the end of a call.                               *)
C34_FailedCallLeavesMetrics ==
    [][(\A c \in Calls : ~(pc[c] # "returned" /\ pc'[c] = "returned"))
          => metrics' = metrics]_vars

(* A call was counted, the last call allowed has raised since, and the     *)
(* count is still one.                                                     *)
C34_Witness ==
    /\ asked = MaxAsks
    /\ pc[1] = "raised"
    /\ metrics.total_queries = 1

(* C35: a run that ends with status failed leaves the store as it found    *)
(* it, also when it was started with reset_collection on a directory that  *)
(* does not exist.                                                         *)
C35_FailedRunLeavesStore ==
    [][(run["A"].pc # "raised" /\ run'["A"].pc = "raised")
          => /\ indexing_progress'.status = "failed"
             /\ stored' = stored]_vars

(* C36: the documents of a run are the parseable records of the csv files  *)
(* of its directory, each once: their number, which is total_documents in  *)
(* the summary, is the number of those records, for every set of files, a  *)
(* file without documents among them.                                      *)
C36_EachRecordOnce ==
    run["A"].pc \notin {"idle", "raised"} =>
        /\ Len(run["A"].documents) = Len(load_csv_files(run["A"].directory.files, 0))
        /\ run["A"].pc = "returned" =>
              run["A"].ret.summary.statistics.total_documents
                  = Len(load_csv_files(run["A"].directory.files, 0))

(* The documents of the run of r that are in the store.                    *)
AddedBy(r) ==
    {j \in DOMAIN stored : \E k \in DOMAIN run[r].documents :
                               stored[j].id = run[r].documents[k].id}

(* C37: when a run has returned, indexed_documents is the number of its    *)
(* documents in the store, and the documents counted as failed are among   *)
(* the others: no document in the store is counted as failed.              *)
C37_IndexedAreInStore ==
    run["A"].pc = "returned" =>
        /\ indexing_progress.indexed_documents = Cardinality(AddedBy("A"))
        /\ indexing_progress.failed_documents
               <= Len(run["A"].documents) - Cardinality(AddedBy("A"))

(* C38: a successful embed_batch returns one vector for each text of the   *)
(* batch it was given, a blank text among them or not, the i-th vector     *)
(* being the one of the i-th text.                                         *)
C38_OneVectorPerDocument ==
    batch.pc = "returned" =>
        /\ Len(batch.ret.vectors) = Len(batch.texts)
        /\ \A i \in DOMAIN batch.texts :
              ~TextIsBlank(batch.texts[i]) =>
                  batch.ret.vectors[i] = EmbeddingOf(_truncate_text(batch.texts[i]))

(* C39: every result retrieved within the caller's max_sources is eligible *)
(* for the context: when the context has fewer entries than there are      *)
(* results, the first result left out is one that did not fit the          *)
(* character budget.  Results beyond the configured number are retrieved   *)
(* only for a caller who asked for more sources than that number, the      *)
(* limit of the search being max_sources or self.max_sources.              *)
C39_LeftOutOnlyByBudget ==
    (retValue # None /\ Len(Val(retValue)) < Len(argResults)) =>
        LET i == Len(Val(retValue)) + 1
        IN  SumLengths(Val(retValue)) + ContextEntryLen(argResults[i], i, fast_mode)
                > ContextBudget(fast_mode)

(* C40: when every switch_model call made so far has failed and none is in *)
(* progress, whether the calls followed one another or overlapped, the     *)
(* active model is the one that was active before the first of them.       *)
C40_FailedSwitchesRestoreModel ==
    ((\A c \in Calls : switch[c].pc \in {"idle", "raised"})
        /\ (\E c \in Calls : switch[c].pc = "raised"))
    => emb_model = EMBEDDING_MODEL

====
